---------------------------- MODULE Spec2Model ----------------------------
(***************************************************************************)
(* Verification model of DynaBERT/transformers/modeling_bert.py:           *)
(*   - the elastic depth selection of BertEncoder.forward,                 *)
(*   - the elastic width arithmetic of DynaLinear / BertSelfAttention,     *)
(*   - the outlier-aware centroid quantization gobo_quantize / _quantize.  *)
(*                                                                         *)
(* Numbers.  Multipliers are Python floats read from decimal strings; they *)
(* are modelled as exact rationals [num, den].  Weights and centroids are  *)
(* modelled as exact rationals [n, d] in lowest terms with d > 0, and the  *)
(* IEEE not-a-number that numpy returns for the mean of an empty slice is  *)
(* the value [n |-> 0, d |-> 0], which compares false with everything.     *)
(* Rounding error of float32/float64 arithmetic is not modelled.           *)
(***************************************************************************)
EXTENDS Integers, Sequences, FiniteSets, TLC

VARIABLES
    \* ---- BertEncoder -------------------------------------------------
    layer_count,        \* len(self.layer)
    depth_mult,         \* self.depth_mult, a rational [num, den]
    enc_status,         \* outcome of the last forward: "idle" | "ok" |
                        \* "IndexError: self.layer" | "IndexError: layer_outputs"
    depth,              \* local `depth` of the last forward
    kept_layers_index,  \* local `kept_layers_index` of the last forward
    executed,           \* layer indices whose layer_module was called, in call order
    enc_hidden,         \* hidden state returned: the trace of layers applied to the input
    fwd_depth_mult,     \* the value of self.depth_mult the last forward read
    output_hidden_states,   \* config.output_hidden_states
    output_attentions,      \* config.output_attentions
    output_intermediate,    \* config.output_intermediate
    enc_outputs,        \* the tuple the last forward returned (<<>> if it raised)
    layer_calls,        \* the layer_module(...) calls of the last forward, in order:
                        \* [layer, hidden_states, head_mask] of each
    \* ---- BertLayer: attention and feed-forward widths ------------------
    num_heads,          \* config.num_attention_heads (= orig_num_attention_heads)
    head_size,          \* self.attention_head_size
    intermediate_size,  \* config.intermediate_size
    width_mult,         \* the width_mult attribute of every DynaLinear of the layer
    lin,                \* DynaLinear name -> [in_features, out_features,
                        \*                     in_features_max, out_features_max]
    lin_weight,         \* DynaLinear name -> self.weight, as [rows, cols]: the entry
                        \* at (r, c) is the entry the constructor put at
                        \* (rows[r], cols[c])
    lin_bias,           \* DynaLinear name -> self.bias: the constructor's entry
                        \* index held at each position
    used,               \* DynaLinear name -> the [rows, cols, bias] slice its last
                        \* forward handed to nn.functional.linear
    prev_num_attention_heads,
                        \* num_attention_heads as the last forward found it
    reorder_status,     \* "idle" | "running" | "ok" | "IndexError": the last
                        \* reorder_heads
    num_attention_heads,\* BertSelfAttention.num_attention_heads
    all_head_size,      \* BertSelfAttention.all_head_size
    att_status,         \* "idle" | "ok" | "ViewError" | "LinearError"
    fwd_width_mult,     \* the value of width_mult the last layer forward read
    \* ---- gobo_quantize called on its own ------------------------------
    weights,            \* argument `weights`: the flat weight vector
    o_idx,              \* argument `o_idx`: the boolean outlier mask
    bits,               \* argument `bits`
    new_weights,        \* the vector returned
    gobo_status,        \* "idle" | "ok" | "IndexError"
    \* ---- _quantize on one layer ---------------------------------------
    params,             \* layer.named_parameters(): sequence of [data, requires_grad]
    params_before,      \* the parameters as they were when _quantize was entered
    q_o_idx,            \* the mask detect_outliers returned
    q_new_weights,      \* what quantize_f returned
    q_bits,             \* argument `bits` of _quantize
    q_detect_o,         \* argument `detect_o` of _quantize
    o_count,            \* local `o_count` when the assertion is evaluated
    o_group_len,        \* len(o_group)
    q_status,           \* "idle" | "ok" | "AssertionError" | "IndexError" |
                        \* "TypeError" | "ValueError"
    \* ---- BertForSequenceClassification -------------------------------
    num_labels,         \* config.num_labels
    cls_labels,         \* whether the last forward was given labels
    cls_outputs,        \* the tuple the last forward returned (<<>> if it raised)
    cls_status,         \* "idle" | "ok" | the error the encoder raised
    \* ---- eval_glue.convert_examples_to_features_test, one example ------
    max_seq_length,     \* argument max_seq_length
    output_mode,        \* argument output_mode
    ex_tokens_a,        \* tokenizer.tokenize(example.text_a), as token ids
    ex_text_b,          \* whether example.text_b is a non-empty string
    ex_tokens_b,        \* tokenizer.tokenize(example.text_b), as token ids
    ex_label,           \* example.label
    input_ids,          \* the four fields of the feature appended, and label_id
    input_mask,
    segment_ids,
    seq_length,
    label_id,
    feat_status,        \* "idle" | "ok" | "AssertionError" | "IndexError"
    \* ---- requires_grad flags and reorder_neurons ----------------------
    requires_grad,      \* DynaLinear name -> [weight, bias]: the requires_grad
                        \* flag of self.weight and of self.bias
    neuron_status,      \* "idle" | "ok": the last reorder_neurons call
    neuron_call,        \* [module, index]: the module ("intermediate" |
                        \* "output") and the argument of the last reorder_neurons
    neuron_before,      \* [weight, bias]: lin_weight and lin_bias as that call
                        \* found them
    \* ---- the parameters of all layers of BertEncoder ------------------
    stack_params,       \* layer index -> that layer's named_parameters()
    stack_before,       \* stack_params as the last operation found them
    stack_status,       \* "idle" | "ok" | the error _quantize raised
    stack_op,           \* [kind, layer, bits]: "quantize" (BertEncoder.quantize)
                        \* or "reorder" (reorder_neurons on one layer, 0-based)
    stack_done,         \* the layer indices _quantize was called on, in call order
    stack_masks,        \* the mask detect_outliers returned in each of these calls
    \* ---- reorder_heads running next to forward passes ------------------
    reorder_pc,         \* 0: no reorder_heads call in progress; k in 1..4: the
                        \* call has built its index and made k - 1 of its 4 copies
    reorder_arg,        \* argument idx of the call in progress or last made
    reorder_index,      \* local `index` of that call
    reorder_count,      \* number of reorder_heads calls started
    observed_at,        \* [pc, idx]: reorder_pc and reorder_arg when the last
                        \* forward read the weights
    mixed_observed,     \* some forward was handed query/key/value/output
                        \* weights that are not in one head order
    \* ---- _truncate_seq_pair, one call ----------------------------------
    trunc_tokens_a,     \* the list tokens_a of the call, as it is now
    trunc_tokens_b,     \* the list tokens_b of the call, as it is now
    trunc_max_length,   \* argument max_length
    trunc_orig,         \* [tokens_a, tokens_b]: the two lists as passed in
    trunc_pops,         \* the pop() calls so far, in order: [list, len_a, len_b],
                        \* the list popped and the two lengths before the pop
    trunc_pc            \* "idle" | "loop" | "done" | "IndexError"

encVars == <<layer_count, depth_mult, enc_status, depth, kept_layers_index,
             executed, enc_hidden, fwd_depth_mult, output_hidden_states,
             output_attentions, output_intermediate, enc_outputs, layer_calls>>

widthVars == <<num_heads, head_size, intermediate_size, width_mult, lin,
               num_attention_heads, all_head_size, att_status, fwd_width_mult,
               lin_weight, lin_bias, used, prev_num_attention_heads,
               reorder_status>>

goboVars == <<weights, o_idx, bits, new_weights, gobo_status>>

quantVars == <<params, params_before, q_o_idx, q_new_weights, q_bits, q_detect_o,
               o_count, o_group_len, q_status>>

clsVars == <<num_labels, cls_labels, cls_outputs, cls_status>>

featVars == <<max_seq_length, output_mode, ex_tokens_a, ex_text_b, ex_tokens_b,
              ex_label, input_ids, input_mask, segment_ids, seq_length, label_id,
              feat_status>>

neuronVars == <<requires_grad, neuron_status, neuron_call, neuron_before>>

stackVars == <<stack_params, stack_before, stack_status, stack_op, stack_done,
               stack_masks>>

raceVars == <<reorder_pc, reorder_arg, reorder_index, reorder_count, observed_at,
              mixed_observed>>

truncVars == <<trunc_tokens_a, trunc_tokens_b, trunc_max_length, trunc_orig,
               trunc_pops, trunc_pc>>

vars == <<encVars, widthVars, goboVars, quantVars, clsVars, featVars,
          neuronVars, stackVars, raceVars, truncVars>>

(***************************************************************************)
(* Bounds                                                                  *)
(***************************************************************************)
MaxLayers == 12     \* largest encoder modelled (BERT-base has 12 layers)
MaxDen    == 6      \* multipliers are num/den with den <= MaxDen

(***************************************************************************)
(* Python arithmetic                                                       *)
(***************************************************************************)
RECURSIVE Gcd(_, _)
Gcd(a, b) == IF b = 0 THEN a ELSE Gcd(b, a % b)

Mult(p, q) == [num |-> p, den |-> q]

\* the multipliers a caller can set: 0, and every num/den in (0, 1], each
\* written in lowest terms
Multipliers == { m \in [num : 0..MaxDen, den : 1..MaxDen] :
                   m.num <= m.den /\ Gcd(m.num, m.den) = 1 }

\* Python 3 round() of the non-negative rational a/b: nearest integer, ties to even
PyRound(a, b) ==
    LET f == a \div b
        r == a % b
    IN  IF 2 * r < b THEN f
        ELSE IF 2 * r > b THEN f + 1
        ELSE IF f % 2 = 0 THEN f ELSE f + 1

\* math.floor(i / m) for a multiplier m > 0
FloorDiv(i, m) == (i * m.den) \div m.num

(***************************************************************************)
(* BertEncoder.forward                                                     *)
(***************************************************************************)
\* depth = round(self.depth_mult * len(self.layer))
Depth(m, L) == PyRound(m.num * L, m.den)

\* (variant: the index taken one step late, floor((i + 1) / depth_mult))
KeptLayersIndexLate(m, L) == [ j \in 1..Depth(m, L) |-> FloorDiv(j, m) ]

\* kept_layers_index = [math.floor(i / self.depth_mult) for i in range(depth)]
KeptLayersIndex(m, L) == [ j \in 1..Depth(m, L) |-> FloorDiv(j - 1, m) ]

\* a tensor is named by what it is and by the layers that were applied, in
\* order, to the encoder's input to produce it
Tensor(kind, trace) == [kind |-> kind, trace |-> trace]

\* a tuple of tensors collected over the layers
Collection(kind, items) == [kind |-> kind, items |-> items]

\* BertLayer.forward of layer i: (layer_output,) + attention_outputs[1:] and,
\* with output_intermediate, + (intermediate_output,); attention_outputs[1:]
\* holds the attention scores when output_attentions is set
BertLayerForward(i, hidden, attentions, intermediate) ==
    LET t == Append(hidden.trace, i)
    IN  <<Tensor("hidden_states", t)>>
        \o (IF attentions THEN <<Tensor("attention_scores", t)>> ELSE <<>>)
        \o (IF intermediate THEN <<Tensor("intermediate_output", t)>> ELSE <<>>)

\* BertModel.forward: head_mask has one entry per layer of the configuration,
\* [None] * num_hidden_layers or the expanded mask; entry j is named j
BertModelHeadMask(L) == [ j \in 1..L |-> j - 1 ]

\* (variant: the entry is taken at the position in the active sequence)
HeadMaskEntryAtPosition(head_mask, i, k) == head_mask[k]

\* head_mask[i] in the k-th iteration, i = kept_layers_index[k - 1]
HeadMaskEntry(head_mask, i, k) == head_mask[i + 1]

\* the loop `for i in kept_layers_index` from its k-th iteration on.
\* self.layer[i] raises IndexError for i >= len(self.layer) and
\* layer_outputs[j] raises IndexError for j >= len(layer_outputs); either
\* ends the loop with what was assigned before it.
RECURSIVE EncoderLoop(_, _, _, _, _)
EncoderLoop(kept, L, k, flags, st) ==
    IF k > Len(kept) THEN st
    ELSE IF kept[k] >= L THEN [st EXCEPT !.status = "IndexError: self.layer"]
    ELSE
      LET i   == kept[k]
          lo  == BertLayerForward(i, st.hidden, flags.attentions, flags.intermediate)
          s1  == [st EXCEPT !.all_hidden_states =
                                IF flags.hidden_states THEN Append(@, st.hidden) ELSE @,
                            !.executed = Append(@, i),
                            !.calls = Append(@, [layer |-> i, hidden_states |-> st.hidden,
                                                 head_mask |->
                                                   HeadMaskEntry(BertModelHeadMask(L), i, k)]),
                            !.hidden = lo[1]]
      IN  IF flags.attentions /\ Len(lo) < 2
          THEN [s1 EXCEPT !.status = "IndexError: layer_outputs"]
          ELSE
            LET s2 == [s1 EXCEPT !.all_attentions =
                                     IF flags.attentions THEN Append(@, lo[2]) ELSE @]
            IN  IF flags.intermediate /\ Len(lo) < 3
                THEN [s2 EXCEPT !.status = "IndexError: layer_outputs"]
                ELSE EncoderLoop(kept, L, k + 1, flags,
                                 [s2 EXCEPT !.all_intermediate =
                                     IF flags.intermediate THEN Append(@, lo[3]) ELSE @])

\* BertEncoder.forward on the input hidden state (the empty trace)
BertEncoderForward(L, m, flags) ==
    LET kept == KeptLayersIndex(m, L)
        st   == EncoderLoop(kept, L, 1, flags,
                            [status |-> "ok", hidden |-> Tensor("hidden_states", <<>>),
                             executed |-> <<>>, calls |-> <<>>,
                             all_hidden_states |-> <<>>,
                             all_attentions |-> <<>>, all_intermediate |-> <<>>])
        outputs ==
            <<st.hidden>>
            \o (IF flags.hidden_states
                THEN <<Collection("all_hidden_states",
                                  Append(st.all_hidden_states, st.hidden))>>
                ELSE <<>>)
            \o (IF flags.attentions
                THEN <<Collection("all_attentions", st.all_attentions)>> ELSE <<>>)
            \o (IF flags.intermediate
                THEN <<Collection("all_intermediate", st.all_intermediate)>> ELSE <<>>)
    IN  [status |-> st.status, depth |-> Depth(m, L), kept_layers_index |-> kept,
         executed |-> st.executed, calls |-> st.calls, hidden |-> st.hidden.trace,
         outputs |-> IF st.status = "ok" THEN outputs ELSE <<>>]

(***************************************************************************)
(* DynaLinear and the widths inside one BertLayer                          *)
(***************************************************************************)
MaxHeads        == 4    \* config.num_attention_heads ranges over 1..MaxHeads
MaxHeadSize     == 2    \* attention_head_size ranges over 1..MaxHeadSize
MaxIntermediate == 2    \* config.intermediate_size ranges over 1..MaxIntermediate

Max2(a, b) == IF a >= b THEN a ELSE b

\* round(num_heads * width_mult)
ActiveHeads(h, w) == PyRound(h * w.num, w.den)

\* round_to_nearest(input_size, width_mult, num_heads, min_value=1)
round_to_nearest(input_size, w, h) ==
    Max2(1, (ActiveHeads(h, w) * input_size) \div h)

LinNames == {"query", "key", "value", "attn_out", "inter", "ffn_out"}

\* (variant: the constructor's default, both dimensions elastic)
dyna_dim_default(name) == <<TRUE, TRUE>>

\* dyna_dim = [input elastic, output elastic] of each instantiation site
dyna_dim(name) ==
    IF name \in {"query", "key", "value", "inter"} THEN <<FALSE, TRUE>>
    ELSE <<TRUE, FALSE>>

\* hidden_size: the constructor raises unless it is a multiple of the head count
HiddenSize(h, a) == h * a

in_features_max(name, h, a, inter) ==
    IF name = "ffn_out" THEN inter ELSE HiddenSize(h, a)

out_features_max(name, h, a, inter) ==
    IF name = "inter" THEN inter ELSE HiddenSize(h, a)

\* DynaLinear.__init__: in_features / out_features start at their maxima
InitLin(h, a, inter) ==
    [ name \in LinNames |->
        [ in_features      |-> in_features_max(name, h, a, inter),
          out_features     |-> out_features_max(name, h, a, inter),
          in_features_max  |-> in_features_max(name, h, a, inter),
          out_features_max |-> out_features_max(name, h, a, inter) ] ]

\* the 0-based positions 0 .. n-1
Arange(n) == [ p \in 1..n |-> p - 1 ]

\* nn.Linear.__init__: a weight of out_features x in_features entries and a
\* bias of out_features entries; every entry is named by its position
InitWeight(h, a, inter) ==
    [ name \in LinNames |->
        [ rows |-> Arange(out_features_max(name, h, a, inter)),
          cols |-> Arange(in_features_max(name, h, a, inter)) ] ]

InitBias(h, a, inter) ==
    [ name \in LinNames |-> Arange(out_features_max(name, h, a, inter)) ]

NoSlice == [rows |-> <<>>, cols |-> <<>>, bias |-> <<>>]

Min2(a, b) == IF a <= b THEN a ELSE b

\* the Python slice s[:n]; a negative n counts from the end
Leading(s, n) ==
    IF n >= 0 THEN SubSeq(s, 1, Min2(n, Len(s)))
    ELSE SubSeq(s, 1, Max2(0, Len(s) + n))

\* weight = self.weight[:self.out_features, :self.in_features] and
\* bias = self.bias[:self.out_features]
DynaLinearSlice(wt, b, cur) ==
    [ rows |-> Leading(wt.rows, cur.out_features),
      cols |-> Leading(wt.cols, cur.in_features),
      bias |-> Leading(b, cur.out_features) ]

\* (variant: the slice is assigned to the module attribute)
AssignedSlice(stored, sliced) == sliced

\* forward binds the slice to a local name; the attribute keeps the full tensor
AfterSlice(stored, sliced) == stored

\* (variant: an elastic size is computed once and reused by later calls)
DynaLinearForwardCached(name, cur, w, h, inWidth) ==
    LET dd   == dyna_dim(name)
        inF  == IF dd[1] /\ cur.in_features = cur.in_features_max
                THEN round_to_nearest(cur.in_features_max, w, h)
                ELSE cur.in_features
        outF == IF dd[2] /\ cur.out_features = cur.out_features_max
                THEN round_to_nearest(cur.out_features_max, w, h)
                ELSE cur.out_features
    IN  [ lin |-> [cur EXCEPT !.in_features = inF, !.out_features = outF],
          ok  |-> (inWidth = inF),
          out |-> outF ]

\* DynaLinear.forward on an input whose last dimension is inWidth:
\* the new (in_features, out_features) and whether nn.functional.linear accepts
\* the input (its last dimension must equal the sliced weight's in_features).
DynaLinearForward(name, cur, w, h, inWidth) ==
    LET dd   == dyna_dim(name)
        inF  == IF dd[1] THEN round_to_nearest(cur.in_features_max, w, h)
                ELSE cur.in_features
        outF == IF dd[2] THEN round_to_nearest(cur.out_features_max, w, h)
                ELSE cur.out_features
    IN  [ lin |-> [cur EXCEPT !.in_features = inF, !.out_features = outF],
          ok  |-> (inWidth = inF),
          out |-> outF ]

WidthIdle ==
    /\ width_mult = Mult(1, 1)
    /\ num_attention_heads = num_heads
    /\ all_head_size = num_heads * head_size
    /\ att_status = "idle"
    /\ fwd_width_mult = Mult(1, 1)
    /\ lin_weight = InitWeight(num_heads, head_size, intermediate_size)
    /\ lin_bias = InitBias(num_heads, head_size, intermediate_size)
    /\ used = [ name \in LinNames |-> NoSlice ]
    /\ prev_num_attention_heads = num_heads
    /\ reorder_status = "idle"

(***************************************************************************)
(* Weights: exact rationals, and NaN                                       *)
(***************************************************************************)
\* the rational n/d (d > 0) in lowest terms
Rat(n, d) ==
    LET g == Gcd(IF n >= 0 THEN n ELSE -n, d)
    IN  [n |-> n \div g, d |-> d \div g]

Num(i) == [n |-> i, d |-> 1]

\* numpy's not-a-number: every ordered comparison and equality with it is false
NaN == [n |-> 0, d |-> 0]

IsNaN(x) == x.d = 0

FLt(a, b) == ~IsNaN(a) /\ ~IsNaN(b) /\ a.n * b.d < b.n * a.d

FLe(a, b) == ~IsNaN(a) /\ ~IsNaN(b) /\ a.n * b.d <= b.n * a.d

FEq(a, b) == ~IsNaN(a) /\ ~IsNaN(b) /\ a.n * b.d = b.n * a.d

RAdd(a, b) == Rat(a.n * b.d + b.n * a.d, a.d * b.d)

RECURSIVE RSum(_)
RSum(s) == IF s = <<>> THEN Num(0) ELSE RAdd(s[1], RSum(Tail(s)))

\* np.average of a slice: NaN (with a RuntimeWarning) when the slice is empty
Average(s) ==
    IF Len(s) = 0 THEN NaN
    ELSE LET t == RSum(s) IN Rat(t.n, t.d * Len(s))

(***************************************************************************)
(* gobo_quantize                                                           *)
(***************************************************************************)
MaxN    == 3    \* a layer holds at most MaxN scalar weights
MaxBits == 2    \* bits ranges over 0..MaxBits

\* centroids.append(-99999.0): the centroid of the outlier bucket
SENTINEL == Num(-99999)

\* `if d < -100.0` of the sanity loop
PATCH_BELOW == Num(-100)

\* weights[~o_idx] / weights[o_idx]: the entries whose mask bit equals keep
RECURSIVE MaskSelect(_, _, _)
MaskSelect(w, m, keep) ==
    IF w = <<>> THEN <<>>
    ELSE (IF m[1] = keep THEN <<w[1]>> ELSE <<>>) \o MaskSelect(Tail(w), Tail(m), keep)

\* np.digitize(x, bins, right=True) for non-decreasing bins: the number of
\* edges strictly below x (bins[i-1] < x <= bins[i])
Digitize(x, bins) == Cardinality({ j \in 1..Len(bins) : FLt(bins[j], x) })

\* seq[k] for a Python index k (negative k counts from the end)
PyIndex(seq, k) == IF k < 0 THEN seq[Len(seq) + k + 1] ELSE seq[k + 1]

\* `idx in o_idx` for a numpy boolean array o_idx: (o_idx == idx).any(), and
\* True == 1, False == 0
InMaskArray(idx, m) == \E j \in 1..Len(m) : (IF m[j] THEN 1 ELSE 0) = idx

\* step = int(len(g_group) / n_bins)
Step(g, n_bins) == Len(g) \div n_bins

\* centroids: one np.average(g_group[start : start + step]) per bin, then the sentinel
Centroids(g, n_bins) ==
    LET step == Step(g, n_bins)
    IN  [ i \in 1..(n_bins + 1) |->
            IF i <= n_bins
            THEN Average(SubSeq(g, (i - 1) * step + 1, (i - 1) * step + step))
            ELSE SENTINEL ]

\* bins: g_group[start] per bin, then g_group[-1]   (g non-empty)
Bins(g, n_bins) ==
    LET step == Step(g, n_bins)
    IN  [ i \in 1..(n_bins + 1) |->
            IF i <= n_bins THEN g[(i - 1) * step + 1] ELSE g[Len(g)] ]

\* the sanity loop: a value below -100 at flat index idx is overwritten by
\* centroids[0] when `idx not in o_idx`
Patched(nw, m, centroids) ==
    [ i \in 1..Len(nw) |->
        IF FLt(nw[i], PATCH_BELOW) /\ ~InMaskArray(i - 1, m)
        THEN centroids[1] ELSE nw[i] ]

\* gobo_quantize(weights, o_idx, bits) for a boolean mask o_idx.
\* g_group[start] raises IndexError when there is no non-outlier value.
gobo_quantize(w, m, b) ==
    LET g      == SortSeq(MaskSelect(w, m, FALSE), LAMBDA x, y : FLt(x, y))
        n_bins == 2 ^ b
    IN  IF Len(g) = 0 THEN [status |-> "IndexError", new_weights |-> <<>>]
        ELSE LET centroids == Centroids(g, n_bins)
                 bins      == Bins(g, n_bins)
                 quantized == [ i \in 1..Len(w) |-> Digitize(w[i], bins) - 1 ]
                 restored  == [ i \in 1..Len(w) |->
                                  IF m[i] THEN w[i] ELSE PyIndex(centroids, quantized[i]) ]
             IN  [status |-> "ok", new_weights |-> Patched(restored, m, centroids)]

(***************************************************************************)
(* detect_outliers, gather_layer_weights, _quantize                        *)
(***************************************************************************)
MaxTensors == 3     \* a layer has at most MaxTensors parameter tensors

RNeg(a) == [n |-> -a.n, d |-> a.d]

RAbs(a) == IF a.n >= 0 THEN a ELSE RNeg(a)

\* |w[i] - mean(w)|
Deviation(w, i) == RAbs(RAdd(w[i], RNeg(Average(w))))

\* detect_outliers: the masks GaussianMixture(n_components=1) can produce.
\* score_samples is the log-density of a Gaussian centred on the sample mean,
\* so `scores <= -4.0` selects the positions whose deviation from the mean
\* reaches a cut-off fixed by the fitted variance.  The cut-off is left open:
\* every position at least as far from the mean as some position k, or none.
OutlierMasks(w) ==
    { [ i \in 1..Len(w) |-> FLe(Deviation(w, k), Deviation(w, i)) ] : k \in 1..Len(w) }
    \cup { [ i \in 1..Len(w) |-> FALSE ] }

\* gather_layer_weights: the data of the trainable tensors, concatenated in
\* named_parameters order
RECURSIVE gather_layer_weights(_)
gather_layer_weights(ps) ==
    IF ps = <<>> THEN <<>>
    ELSE (IF ps[1].requires_grad THEN ps[1].data ELSE <<>>)
         \o gather_layer_weights(Tail(ps))

\* (variant: the quantized vector is not advanced after a tensor is written)
RECURSIVE WriteBackFromStart(_, _)
WriteBackFromStart(ps, nw) ==
    IF ps = <<>> THEN <<>>
    ELSE IF ps[1].requires_grad
         THEN <<[ps[1] EXCEPT !.data = SubSeq(nw, 1, Len(ps[1].data))]>>
              \o WriteBackFromStart(Tail(ps), nw)
         ELSE <<ps[1]>> \o WriteBackFromStart(Tail(ps), nw)

\* the write-back loop: each trainable tensor takes new_weights[:length] and
\* the rest is passed on
RECURSIVE WriteBack(_, _)
WriteBack(ps, nw) ==
    IF ps = <<>> THEN <<>>
    ELSE IF ps[1].requires_grad
         THEN LET length == Len(ps[1].data)
              IN  <<[ps[1] EXCEPT !.data = SubSeq(nw, 1, length)]>>
                  \o WriteBack(Tail(ps), SubSeq(nw, length + 1, Len(nw)))
         ELSE <<ps[1]>> \o WriteBack(Tail(ps), nw)

\* len(np.nonzero(np.in1d(data, o_group))[0]): entries equal to some outlier value
InGroupCount(data, o_group) ==
    Cardinality({ i \in 1..Len(data) :
                    \E j \in 1..Len(o_group) : FEq(data[i], o_group[j]) })

\* o_count: the sum of o_this over the trainable tensors after write-back
RECURSIVE OutlierCount(_, _)
OutlierCount(ps, o_group) ==
    IF ps = <<>> THEN 0
    ELSE (IF ps[1].requires_grad THEN InGroupCount(ps[1].data, o_group) ELSE 0)
         + OutlierCount(Tail(ps), o_group)

\* _quantize(layer, gobo_quantize, detect_o, bits) where detect_outliers
\* returns the mask m.
\*   detect_o true, no trainable weight: GaussianMixture.fit raises ValueError
\*   detect_o false: o_idx = [] and `~o_idx` raises TypeError in gobo_quantize
\*   no non-outlier weight: gobo_quantize raises IndexError
\*   otherwise the tensors are overwritten and then the assertion is evaluated
_quantize(ps, detect_o, b, m) ==
    LET w    == gather_layer_weights(ps)
        fail(st) == [status |-> st, params |-> ps, o_idx |-> <<>>,
                     new_weights |-> <<>>, o_count |-> 0, o_group_len |-> 0]
    IN  IF ~detect_o THEN fail("TypeError")
        ELSE IF Len(w) = 0 THEN fail("ValueError")
        ELSE LET r == gobo_quantize(w, m, b)
             IN  IF r.status # "ok" THEN [fail(r.status) EXCEPT !.o_idx = m]
                 ELSE LET o_group == MaskSelect(w, m, TRUE)
                          written == WriteBack(ps, r.new_weights)
                          cnt     == OutlierCount(written, o_group)
                      IN  [status |-> IF cnt = Len(o_group) THEN "ok"
                                      ELSE "AssertionError",
                           params |-> written, o_idx |-> m,
                           new_weights |-> r.new_weights,
                           o_count |-> cnt, o_group_len |-> Len(o_group)]

(***************************************************************************)
(* Initial conditions of the parts a specification leaves idle             *)
(***************************************************************************)
\* no sequence-classification forward yet (config.num_labels defaults to 2)
ClsIdle ==
    /\ num_labels = 2
    /\ cls_labels = FALSE
    /\ cls_outputs = <<>>
    /\ cls_status = "idle"

\* nn.Parameter: every weight and bias requires grad; no reorder_neurons yet
NeuronIdle ==
    /\ requires_grad = [ name \in LinNames |-> [weight |-> TRUE, bias |-> TRUE] ]
    /\ neuron_status = "idle"
    /\ neuron_call = [module |-> "none", index |-> <<>>]
    /\ neuron_before = [weight |-> lin_weight, bias |-> lin_bias]

\* no operation on the layer stack
StackIdle ==
    /\ stack_params = <<>>
    /\ stack_before = <<>>
    /\ stack_status = "idle"
    /\ stack_op = [kind |-> "none", layer |-> 0, bits |-> 0]
    /\ stack_done = <<>>
    /\ stack_masks = <<>>

\* no reorder_heads call in progress, no forward next to one
RaceIdle ==
    /\ reorder_pc = 0
    /\ reorder_arg = <<>>
    /\ reorder_index = <<>>
    /\ reorder_count = 0
    /\ observed_at = [pc |-> 0, idx |-> <<>>]
    /\ mixed_observed = FALSE

\* no _truncate_seq_pair call followed step by step
TruncIdle ==
    /\ trunc_tokens_a = <<>>
    /\ trunc_tokens_b = <<>>
    /\ trunc_max_length = 0
    /\ trunc_orig = [tokens_a |-> <<>>, tokens_b |-> <<>>]
    /\ trunc_pops = <<>>
    /\ trunc_pc = "idle"

\* no example converted
FeatIdle ==
    /\ max_seq_length = 0
    /\ output_mode = "classification"
    /\ ex_tokens_a = <<>>
    /\ ex_text_b = FALSE
    /\ ex_tokens_b = <<>>
    /\ ex_label = "0"
    /\ input_ids = <<>>
    /\ input_mask = <<>>
    /\ segment_ids = <<>>
    /\ seq_length = 0
    /\ label_id = 0
    /\ feat_status = "idle"

GoboIdle ==
    /\ weights = <<>>
    /\ o_idx = <<>>
    /\ bits = 0
    /\ new_weights = <<>>
    /\ gobo_status = "idle"

QuantIdle ==
    /\ params = <<>>
    /\ params_before = <<>>
    /\ q_o_idx = <<>>
    /\ q_new_weights = <<>>
    /\ q_bits = 0
    /\ q_detect_o = TRUE
    /\ o_count = 0
    /\ o_group_len = 0
    /\ q_status = "idle"

LayerIdle ==
    /\ num_heads = 1
    /\ head_size = 1
    /\ intermediate_size = 1
    /\ lin = InitLin(1, 1, 1)
    /\ WidthIdle

\* BertEncoder.__init__: depth_mult = 1., no forward yet
EncStart ==
    /\ depth_mult = Mult(1, 1)
    /\ enc_status = "idle"
    /\ depth = 0
    /\ kept_layers_index = <<>>
    /\ executed = <<>>
    /\ enc_hidden = <<>>
    /\ fwd_depth_mult = Mult(1, 1)
    /\ enc_outputs = <<>>
    /\ layer_calls = <<>>

\* an encoder with the configuration's default output flags
EncIdle ==
    /\ output_hidden_states = FALSE
    /\ output_attentions = FALSE
    /\ output_intermediate = FALSE
    /\ EncStart

InitEnc ==
    /\ layer_count \in 1..MaxLayers
    /\ output_hidden_states \in BOOLEAN
    /\ output_attentions \in BOOLEAN
    /\ output_intermediate \in BOOLEAN
    /\ EncStart
    /\ LayerIdle
    /\ GoboIdle
    /\ QuantIdle
    /\ ClsIdle
    /\ FeatIdle
    /\ NeuronIdle
    /\ StackIdle
    /\ RaceIdle
    /\ TruncIdle

\* the three output flags every module copied from the configuration
OutputFlags ==
    [hidden_states |-> output_hidden_states, attentions |-> output_attentions,
     intermediate |-> output_intermediate]

\* eval_glue: model.apply(lambda m: setattr(m, 'depth_mult', float(args.depth_mult)))
SetDepthMult ==
    /\ \E m \in Multipliers : depth_mult' = m
    /\ UNCHANGED <<layer_count, enc_status, depth, kept_layers_index, executed,
                   enc_hidden, fwd_depth_mult, output_hidden_states,
                   output_attentions, output_intermediate, enc_outputs,
                   layer_calls>>
    /\ UNCHANGED <<widthVars, goboVars, quantVars, clsVars, featVars, neuronVars, stackVars, raceVars, truncVars>>

\* One call of BertEncoder.forward on an input hidden state (the empty trace).
EncoderForward ==
    LET r == BertEncoderForward(layer_count, depth_mult, OutputFlags)
    IN  /\ depth' = r.depth
        /\ kept_layers_index' = r.kept_layers_index
        /\ executed' = r.executed
        /\ enc_hidden' = r.hidden
        /\ enc_status' = r.status
        /\ enc_outputs' = r.outputs
        /\ layer_calls' = r.calls
        /\ fwd_depth_mult' = depth_mult
        /\ UNCHANGED <<layer_count, depth_mult, output_hidden_states,
                       output_attentions, output_intermediate>>
        /\ UNCHANGED <<widthVars, goboVars, quantVars, clsVars, featVars, neuronVars, stackVars, raceVars, truncVars>>

NextDepth == SetDepthMult \/ EncoderForward

SpecDepth == InitEnc /\ [][NextDepth]_vars

InitWidth ==
    /\ num_heads \in 1..MaxHeads
    /\ head_size \in 1..MaxHeadSize
    /\ intermediate_size \in 1..MaxIntermediate
    /\ lin = InitLin(num_heads, head_size, intermediate_size)
    /\ WidthIdle
    /\ layer_count = 1
    /\ EncIdle
    /\ GoboIdle
    /\ QuantIdle
    /\ ClsIdle
    /\ FeatIdle
    /\ NeuronIdle
    /\ StackIdle
    /\ RaceIdle
    /\ TruncIdle

\* eval_glue: model.apply(lambda m: setattr(m, 'width_mult', float(args.width_mult)))
SetWidthMult ==
    /\ \E m \in Multipliers : width_mult' = m
    /\ UNCHANGED <<num_heads, head_size, intermediate_size, lin, num_attention_heads,
                   all_head_size, att_status, fwd_width_mult, lin_weight, lin_bias,
                   used, prev_num_attention_heads, reorder_status>>
    /\ UNCHANGED <<encVars, goboVars, quantVars, clsVars, featVars, neuronVars, stackVars, raceVars, truncVars>>

\* BertLayer.forward: BertSelfAttention.forward, BertSelfOutput.forward,
\* BertIntermediate.forward, BertOutput.forward, in that order; a shape error
\* raised on the way leaves the attributes assigned before it in place.
LayerForwardStep ==
    LET h   == num_heads
        a   == head_size
        w   == width_mult
        hid == HiddenSize(h, a)
        q   == DynaLinearForward("query", lin["query"], w, h, hid)
        k   == DynaLinearForward("key",   lin["key"],   w, h, hid)
        v   == DynaLinearForward("value", lin["value"], w, h, hid)
        n   == ActiveHeads(h, w)
        \* transpose_for_scores: x.view(..., n, a) needs x's last dimension = n * a
        viewOk == q.out = n * a /\ k.out = n * a /\ v.out = n * a
        \* context_layer.view(..., all_head_size), then BertSelfOutput.dense
        o   == DynaLinearForward("attn_out", lin["attn_out"], w, h, n * a)
        i   == DynaLinearForward("inter", lin["inter"], w, h, o.out)
        f   == DynaLinearForward("ffn_out", lin["ffn_out"], w, h, i.out)
        res == [ name \in LinNames |->
                   CASE name = "query" -> q [] name = "key" -> k
                     [] name = "value" -> v [] name = "attn_out" -> o
                     [] name = "inter" -> i [] OTHER -> f ]
        \* the DynaLinear modules whose forward was entered
        called == IF ~viewOk THEN {"query", "key", "value"}
                  ELSE IF ~o.ok THEN {"query", "key", "value", "attn_out"}
                  ELSE IF ~i.ok THEN LinNames \ {"ffn_out"}
                  ELSE LinNames
        sliced(name) == DynaLinearSlice(lin_weight[name], lin_bias[name], res[name].lin)
    IN  /\ fwd_width_mult' = w
        /\ prev_num_attention_heads' = num_attention_heads
        /\ num_attention_heads' = n
        /\ all_head_size' = n * a
        /\ att_status' = IF ~viewOk THEN "ViewError"
                         ELSE IF ~(o.ok /\ i.ok /\ f.ok) THEN "LinearError"
                         ELSE "ok"
        /\ lin' = [ name \in LinNames |->
                      IF name \in called THEN res[name].lin ELSE lin[name] ]
        /\ used' = [ name \in LinNames |->
                       IF name \in called THEN sliced(name) ELSE used[name] ]
        /\ lin_weight' = [ name \in LinNames |->
                             IF name \in called
                             THEN AfterSlice(lin_weight[name],
                                             [rows |-> sliced(name).rows,
                                              cols |-> sliced(name).cols])
                             ELSE lin_weight[name] ]
        /\ lin_bias' = [ name \in LinNames |->
                           IF name \in called
                           THEN AfterSlice(lin_bias[name], sliced(name).bias)
                           ELSE lin_bias[name] ]
        /\ UNCHANGED <<num_heads, head_size, intermediate_size, width_mult,
                       reorder_status>>
        /\ UNCHANGED <<encVars, goboVars, quantVars, clsVars, featVars, neuronVars, stackVars, truncVars>>

\* a forward pass with no reorder_heads call in progress
LayerForward == LayerForwardStep /\ UNCHANGED raceVars

NextWidth == SetWidthMult \/ LayerForward

SpecWidth == InitWidth /\ [][NextWidth]_vars

(***************************************************************************)
(* BertAttention.reorder_heads                                             *)
(***************************************************************************)
MaxReorderHeads == 3    \* layers of 1..MaxReorderHeads heads are reordered

\* the orders of all h heads a caller can pass as idx (heads are 0 .. h-1)
HeadPermutations(h) ==
    { idx \in [1..h -> 0..(h - 1)] : \A i, j \in 1..h : idx[i] = idx[j] => i = j }

\* index = torch.arange(n*a).reshape(n, a)[idx].view(-1): row idx[j] of the
\* n x a table is a..a+a-1 shifted by idx[j]*a; an entry of idx outside
\* -n .. n-1 raises IndexError
HeadIndex(idx, n, a) ==
    IF \E j \in 1..Len(idx) : idx[j] >= n \/ idx[j] < -n
    THEN [ok |-> FALSE, index |-> <<>>]
    ELSE [ok |-> TRUE,
          index |-> [ p \in 1..(Len(idx) * a) |->
                        LET head == idx[((p - 1) \div a) + 1]
                        IN  (IF head < 0 THEN head + n ELSE head) * a + ((p - 1) % a) ]]

\* reorder_head_matrix(linearLayer, index, dim): weight.index_select(dim, index)
\* is copied over the weight; the bias is bias[index] for dim = 0 and the
\* bias itself for dim = 1
reorder_head_matrix(wt, b, index, dim) ==
    IF dim = 0
    THEN [weight |-> [wt EXCEPT !.rows = [ p \in 1..Len(index) |-> wt.rows[index[p] + 1] ]],
          bias   |-> [ p \in 1..Len(index) |-> b[index[p] + 1] ]]
    ELSE [weight |-> [wt EXCEPT !.cols = [ p \in 1..Len(index) |-> wt.cols[index[p] + 1] ]],
          bias   |-> b]

\* requires_grad = False; copy_(...); requires_grad = True: the flag the
\* parameter has after the copy
AfterCopy(flag) == TRUE

\* the flags of a module whose weight and bias were both copied over
CopiedFlags(g) == [weight |-> AfterCopy(g.weight), bias |-> AfterCopy(g.bias)]

\* reorder_heads(idx) with self.self.num_attention_heads = n
reorder_heads(idx, n, a, W, B) ==
    LET ix == HeadIndex(idx, n, a)
        q  == reorder_head_matrix(W["query"], B["query"], ix.index, 0)
        k  == reorder_head_matrix(W["key"], B["key"], ix.index, 0)
        v  == reorder_head_matrix(W["value"], B["value"], ix.index, 0)
        o  == reorder_head_matrix(W["attn_out"], B["attn_out"], ix.index, 1)
    IN  IF ~ix.ok THEN [status |-> "IndexError", weight |-> W, bias |-> B]
        ELSE [status |-> "ok",
              weight |-> [W EXCEPT !["query"] = q.weight, !["key"] = k.weight,
                                   !["value"] = v.weight, !["attn_out"] = o.weight],
              bias   |-> [B EXCEPT !["query"] = q.bias, !["key"] = k.bias,
                                   !["value"] = v.bias, !["attn_out"] = o.bias]]

\* What BertSelfAttention.forward followed by BertSelfOutput.dense computes
\* with n heads, as a function of the stored entries: head j scores with the
\* query and key rows (and biases) at its a positions, and each of its
\* positions p sends the value row p (and bias) through output column p; the
\* terms of all positions are summed.  Two parameter sets with the same
\* description compute the same function (up to the order of the summation).
AttentionOutput(W, B, n, a) ==
    [ heads |->
        { [ qk |-> { <<W["query"].rows[p], B["query"][p],
                       W["key"].rows[p], B["key"][p]>> :
                     p \in (j * a + 1)..(j * a + a) },
            vo |-> { <<W["value"].rows[p], B["value"][p], W["attn_out"].cols[p]>> :
                     p \in (j * a + 1)..(j * a + a) } ] : j \in 0..(n - 1) },
      inputs  |-> <<W["query"].cols, W["key"].cols, W["value"].cols>>,
      outputs |-> <<W["attn_out"].rows, B["attn_out"]>> ]

InitReorder ==
    /\ num_heads \in 1..MaxReorderHeads
    /\ head_size \in 1..MaxHeadSize
    /\ intermediate_size = MaxIntermediate
    /\ lin = InitLin(num_heads, head_size, intermediate_size)
    /\ WidthIdle
    /\ layer_count = 1
    /\ EncIdle
    /\ GoboIdle
    /\ QuantIdle
    /\ ClsIdle
    /\ FeatIdle
    /\ NeuronIdle
    /\ StackIdle
    /\ RaceIdle
    /\ TruncIdle

\* eval_glue: setattr(m, 'width_mult', ...) with a multiplier k / num_heads
SetHeadWidthMult ==
    /\ \E k \in 0..num_heads : width_mult' = Mult(k, num_heads)
    /\ UNCHANGED <<num_heads, head_size, intermediate_size, lin, num_attention_heads,
                   all_head_size, att_status, fwd_width_mult, lin_weight, lin_bias,
                   used, prev_num_attention_heads, reorder_status>>
    /\ UNCHANGED <<encVars, goboVars, quantVars, clsVars, featVars, neuronVars, stackVars, raceVars, truncVars>>

\* layer.attention.reorder_heads(idx) for an order idx of all heads
ReorderHeads ==
    /\ \E idx \in HeadPermutations(num_heads) :
         LET r == reorder_heads(idx, num_attention_heads, head_size, lin_weight, lin_bias)
         IN  /\ reorder_status' = r.status
             /\ lin_weight' = r.weight
             /\ lin_bias' = r.bias
             /\ requires_grad' =
                   IF r.status # "ok" THEN requires_grad
                   ELSE [ name \in LinNames |->
                            IF name \in {"query", "key", "value", "attn_out"}
                            THEN CopiedFlags(requires_grad[name])
                            ELSE requires_grad[name] ]
    /\ UNCHANGED <<num_heads, head_size, intermediate_size, width_mult, lin,
                   num_attention_heads, all_head_size, att_status, fwd_width_mult,
                   used, prev_num_attention_heads>>
    /\ UNCHANGED <<neuron_status, neuron_call, neuron_before>>
    /\ UNCHANGED <<encVars, goboVars, quantVars, clsVars, featVars, stackVars, raceVars, truncVars>>

NextReorder == SetHeadWidthMult \/ LayerForward \/ ReorderHeads

SpecReorder == InitReorder /\ [][NextReorder]_vars

(***************************************************************************)
(* reorder_heads statement by statement, next to forward passes            *)
(***************************************************************************)
MaxRaceReorders == 1    \* reorder_heads calls made while forward passes run

\* (variant: the fourth copy is made on the value projection again)
CopyTargetValueTwice(k) ==
    CASE k = 1 -> "query" [] k = 2 -> "key" [] OTHER -> "value"

\* the module the k-th reorder_head_matrix call of reorder_heads copies into
CopyTarget(k) ==
    CASE k = 1 -> "query" [] k = 2 -> "key" [] k = 3 -> "value" [] OTHER -> "attn_out"

\* the dim argument of the k-th reorder_head_matrix call
CopyDim(k) == IF k = 4 THEN 1 ELSE 0

\* query, key and value rows, their biases and the output projection's
\* columns, as handed to nn.functional.linear, are in one and the same order
OneHeadOrder(u) ==
    /\ u["key"].rows = u["query"].rows
    /\ u["value"].rows = u["query"].rows
    /\ u["attn_out"].cols = u["query"].rows
    /\ u["query"].bias = u["query"].rows
    /\ u["key"].bias = u["query"].rows
    /\ u["value"].bias = u["query"].rows

InitRace ==
    /\ num_heads \in 1..MaxReorderHeads
    /\ head_size \in 1..MaxHeadSize
    /\ intermediate_size = 1
    /\ lin = InitLin(num_heads, head_size, intermediate_size)
    /\ WidthIdle
    /\ layer_count = 1
    /\ EncIdle
    /\ GoboIdle
    /\ QuantIdle
    /\ ClsIdle
    /\ FeatIdle
    /\ NeuronIdle
    /\ StackIdle
    /\ RaceIdle
    /\ TruncIdle

\* reorder_heads(idx) up to its first reorder_head_matrix call: n, a and
\* index are computed; an IndexError ends the call
ReorderHeadsBegin ==
    /\ reorder_pc = 0
    /\ reorder_count < MaxRaceReorders
    /\ reorder_count' = reorder_count + 1
    /\ \E idx \in HeadPermutations(num_heads) :
         \E ix \in {HeadIndex(idx, num_attention_heads, head_size)} :
            /\ reorder_arg' = idx
            /\ reorder_index' = ix.index
            /\ reorder_pc' = IF ix.ok THEN 1 ELSE 0
            /\ reorder_status' = IF ix.ok THEN "running" ELSE "IndexError"
    /\ UNCHANGED <<num_heads, head_size, intermediate_size, width_mult, lin,
                   num_attention_heads, all_head_size, att_status, fwd_width_mult,
                   lin_weight, lin_bias, used, prev_num_attention_heads>>
    /\ UNCHANGED <<observed_at, mixed_observed>>
    /\ UNCHANGED <<encVars, goboVars, quantVars, clsVars, featVars, neuronVars, stackVars, truncVars>>

\* the next of the four reorder_head_matrix calls of the call in progress
ReorderHeadsCopy ==
    /\ reorder_pc \in 1..4
    /\ LET name == CopyTarget(reorder_pc)
       IN  \E r \in {reorder_head_matrix(lin_weight[name], lin_bias[name],
                                         reorder_index, CopyDim(reorder_pc))} :
              /\ lin_weight' = [lin_weight EXCEPT ![name] = r.weight]
              /\ lin_bias' = [lin_bias EXCEPT ![name] = r.bias]
              /\ requires_grad' = [requires_grad EXCEPT ![name] = CopiedFlags(@)]
    /\ reorder_pc' = IF reorder_pc = 4 THEN 0 ELSE reorder_pc + 1
    /\ reorder_status' = IF reorder_pc = 4 THEN "ok" ELSE reorder_status
    /\ UNCHANGED <<num_heads, head_size, intermediate_size, width_mult, lin,
                   num_attention_heads, all_head_size, att_status, fwd_width_mult,
                   used, prev_num_attention_heads>>
    /\ UNCHANGED <<neuron_status, neuron_call, neuron_before>>
    /\ UNCHANGED <<reorder_arg, reorder_index, reorder_count, observed_at, mixed_observed>>
    /\ UNCHANGED <<encVars, goboVars, quantVars, clsVars, featVars, stackVars, truncVars>>

\* a forward pass of the layer on another thread: it reads the weights as
\* they are at that moment
ConcurrentForward ==
    /\ LayerForwardStep
    /\ observed_at' = [pc |-> reorder_pc, idx |-> reorder_arg]
    /\ mixed_observed' = (mixed_observed \/ ~OneHeadOrder(used'))
    /\ UNCHANGED <<reorder_pc, reorder_arg, reorder_index, reorder_count>>

NextRace == ReorderHeadsBegin \/ ReorderHeadsCopy \/ ConcurrentForward

SpecRace == InitRace /\ [][NextRace]_vars

(***************************************************************************)
(* BertIntermediate.reorder_neurons, BertOutput.reorder_neurons            *)
(***************************************************************************)
MaxNeurons == 3     \* feed-forward blocks of 1..MaxNeurons neurons are reordered

\* the orders of all n neurons a caller can pass as index (neurons are 0 .. n-1)
NeuronPermutations(n) ==
    { index \in [1..n -> 0..(n - 1)] : \A i, j \in 1..n : index[i] = index[j] => i = j }

\* (variant: the old row or column r is moved to position index[r])
reorder_neurons_scatter(wt, b, index, dim) ==
    LET to(seq) == [ p \in 1..Len(index) |->
                       seq[(CHOOSE r \in 1..Len(index) : index[r] + 1 = p)] ]
    IN  IF dim = 0
        THEN [weight |-> [wt EXCEPT !.rows = to(wt.rows)], bias |-> to(b)]
        ELSE [weight |-> [wt EXCEPT !.cols = to(wt.cols)], bias |-> b]

\* reorder_neurons(index, dim) of either module: self.dense.weight
\* .index_select(dim, index) is copied over the weight; the bias becomes
\* bias[index] for dim = 0 and is copied over itself for dim = 1
reorder_neurons(wt, b, index, dim) ==
    IF dim = 0
    THEN [weight |-> [wt EXCEPT !.rows = [ p \in 1..Len(index) |-> wt.rows[index[p] + 1] ]],
          bias   |-> [ p \in 1..Len(index) |-> b[index[p] + 1] ]]
    ELSE [weight |-> [wt EXCEPT !.cols = [ p \in 1..Len(index) |-> wt.cols[index[p] + 1] ]],
          bias   |-> b]

\* What BertIntermediate.forward followed by BertOutput.dense computes at
\* full width, as a function of the stored entries: neuron position p
\* activates on expand row p plus expand bias p and is sent through project
\* column p; the terms of all positions are summed.
FeedForwardOutput(W, B) ==
    [ neurons |-> { <<W["inter"].rows[p], B["inter"][p], W["ffn_out"].cols[p]>> :
                    p \in 1..Len(W["inter"].rows) },
      inputs  |-> W["inter"].cols,
      outputs |-> <<W["ffn_out"].rows, B["ffn_out"]>> ]

InitNeurons ==
    /\ num_heads = 1
    /\ head_size = 1
    /\ intermediate_size \in 1..MaxNeurons
    /\ lin = InitLin(num_heads, head_size, intermediate_size)
    /\ WidthIdle
    /\ layer_count = 1
    /\ EncIdle
    /\ GoboIdle
    /\ QuantIdle
    /\ ClsIdle
    /\ FeatIdle
    /\ NeuronIdle
    /\ StackIdle
    /\ RaceIdle
    /\ TruncIdle

\* layer.intermediate.reorder_neurons(index) (dim = 0) or
\* layer.output.reorder_neurons(index) (dim = 1) on the module's dense
ReorderNeurons(module, name, dim) ==
    /\ \E index \in NeuronPermutations(intermediate_size) :
         \E r \in {reorder_neurons(lin_weight[name], lin_bias[name], index, dim)} :
            /\ neuron_call' = [module |-> module, index |-> index]
            /\ lin_weight' = [lin_weight EXCEPT ![name] = r.weight]
            /\ lin_bias' = [lin_bias EXCEPT ![name] = r.bias]
    /\ neuron_status' = "ok"
    /\ neuron_before' = [weight |-> lin_weight, bias |-> lin_bias]
    /\ requires_grad' = [requires_grad EXCEPT ![name] = CopiedFlags(@)]
    /\ UNCHANGED <<num_heads, head_size, intermediate_size, width_mult, lin,
                   num_attention_heads, all_head_size, att_status, fwd_width_mult,
                   used, prev_num_attention_heads, reorder_status>>
    /\ UNCHANGED <<encVars, goboVars, quantVars, clsVars, featVars, stackVars, raceVars, truncVars>>

ReorderIntermediateNeurons == ReorderNeurons("intermediate", "inter", 0)

ReorderOutputNeurons == ReorderNeurons("output", "ffn_out", 1)

NextNeurons == ReorderIntermediateNeurons \/ ReorderOutputNeurons

SpecNeurons == InitNeurons /\ [][NextNeurons]_vars

\* the caller sets requires_grad of every parameter of the layer, as in
\* `for p in layer.parameters(): p.requires_grad = flag`
SetRequiresGrad ==
    /\ \E flag \in BOOLEAN :
         requires_grad' = [ name \in LinNames |-> [weight |-> flag, bias |-> flag] ]
    /\ UNCHANGED <<neuron_status, neuron_call, neuron_before>>
    /\ UNCHANGED <<encVars, widthVars, goboVars, quantVars, clsVars, featVars, stackVars, raceVars, truncVars>>

InitGrad ==
    /\ num_heads \in 1..MaxReorderHeads
    /\ head_size = 1
    /\ intermediate_size = 1
    /\ lin = InitLin(num_heads, head_size, intermediate_size)
    /\ WidthIdle
    /\ layer_count = 1
    /\ EncIdle
    /\ GoboIdle
    /\ QuantIdle
    /\ ClsIdle
    /\ FeatIdle
    /\ NeuronIdle
    /\ StackIdle
    /\ RaceIdle
    /\ TruncIdle

NextGrad ==
    SetRequiresGrad \/ ReorderHeads \/ ReorderIntermediateNeurons \/ ReorderOutputNeurons

SpecGrad == InitGrad /\ [][NextGrad]_vars

(***************************************************************************)
(* gobo_quantize as a function of its arguments                            *)
(***************************************************************************)
\* the scalar values a weight takes in the model
WeightValues == { Num(-99999), Num(-200), Num(-1), Num(0), Num(2) }

\* the scalar values a weight of a layer handed to _quantize takes
LayerValues == { Num(-99999), Num(-200), Num(0), Num(2) }

Vectors(S, n) == UNION { [1..k -> S] : k \in 1..n }

InitGobo ==
    /\ weights \in Vectors(WeightValues, MaxN)
    /\ o_idx \in [1..Len(weights) -> BOOLEAN]
    /\ bits \in 0..MaxBits
    /\ new_weights = <<>>
    /\ gobo_status = "idle"
    /\ layer_count = 1
    /\ EncIdle
    /\ LayerIdle
    /\ QuantIdle
    /\ ClsIdle
    /\ FeatIdle
    /\ NeuronIdle
    /\ StackIdle
    /\ RaceIdle
    /\ TruncIdle

GoboQuantize ==
    /\ gobo_status = "idle"
    /\ LET r == gobo_quantize(weights, o_idx, bits)
       IN  /\ gobo_status' = r.status
           /\ new_weights' = r.new_weights
    /\ UNCHANGED <<weights, o_idx, bits>>
    /\ UNCHANGED <<encVars, widthVars, quantVars, clsVars, featVars, neuronVars, stackVars, raceVars, truncVars>>

NextGobo == GoboQuantize

SpecGobo == InitGobo /\ [][NextGobo]_vars

(***************************************************************************)
(* _quantize on one layer                                                  *)
(***************************************************************************)
\* the shapes of a layer: up to MaxTensors tensors of at least one scalar
\* each, MaxN scalars in all
RECURSIVE SumSeq(_)
SumSeq(sh) == IF sh = <<>> THEN 0 ELSE sh[1] + SumSeq(Tail(sh))

Shapes == { sh \in Vectors(1..MaxN, MaxTensors) : SumSeq(sh) <= MaxN }

\* the layer of shape sh that holds the flat vector w, with requires_grad flags req
RECURSIVE MakeLayer(_, _, _)
MakeLayer(sh, w, req) ==
    IF sh = <<>> THEN <<>>
    ELSE <<[data |-> SubSeq(w, 1, sh[1]), requires_grad |-> req[1]]>>
         \o MakeLayer(Tail(sh), SubSeq(w, sh[1] + 1, Len(w)), Tail(req))

Layers ==
    UNION { { MakeLayer(sh, w, req) :
                w \in [1..SumSeq(sh) -> LayerValues], req \in [1..Len(sh) -> BOOLEAN] }
            : sh \in Shapes }

InitQuant ==
    /\ params \in Layers
    /\ params_before = params
    /\ q_o_idx = <<>>
    /\ q_new_weights = <<>>
    /\ q_bits = 0
    /\ q_detect_o = TRUE
    /\ o_count = 0
    /\ o_group_len = 0
    /\ q_status = "idle"
    /\ layer_count = 1
    /\ EncIdle
    /\ LayerIdle
    /\ GoboIdle
    /\ ClsIdle
    /\ FeatIdle
    /\ NeuronIdle
    /\ StackIdle
    /\ RaceIdle
    /\ TruncIdle

\* one call _quantize(layer, gobo_quantize, detect_o, bits) on a layer that
\* has not been quantized (BertEncoder.quantize visits each layer once)
Quantize ==
    /\ q_status = "idle"
    /\ \E detect_o \in BOOLEAN, b \in 0..MaxBits :
         \E m \in OutlierMasks(gather_layer_weights(params)) \cup {<<>>} :
            /\ (m = <<>>) = (~detect_o \/ gather_layer_weights(params) = <<>>)
            /\ LET r == _quantize(params, detect_o, b, m)
               IN  /\ params' = r.params
                   /\ q_status' = r.status
                   /\ q_o_idx' = r.o_idx
                   /\ q_new_weights' = r.new_weights
                   /\ o_count' = r.o_count
                   /\ o_group_len' = r.o_group_len
                   /\ q_bits' = b
                   /\ q_detect_o' = detect_o
    /\ UNCHANGED params_before
    /\ UNCHANGED <<encVars, widthVars, goboVars, clsVars, featVars, neuronVars, stackVars, raceVars, truncVars>>

NextQuant == Quantize

SpecQuant == InitQuant /\ [][NextQuant]_vars

(***************************************************************************)
(* BertEncoder.quantize and a reordering, on the parameters of all layers  *)
(***************************************************************************)
MaxStackLayers == 2     \* the encoder has 1..MaxStackLayers layers
MaxStackN      == 3     \* a layer's weight tensor has 1..MaxStackN scalars

\* the scalar values a weight of a stacked layer takes
StackValues == { Num(-200), Num(2) }

\* a layer with one parameter tensor, trainable or frozen
StackLayers ==
    { <<[data |-> w, requires_grad |-> g]>> :
        w \in Vectors(StackValues, MaxStackN), g \in BOOLEAN }

\* the masks detect_outliers can return for a layer (none is computed when
\* the layer has no trainable weight: GaussianMixture.fit raises first)
LayerMasks(ps) ==
    IF gather_layer_weights(ps) = <<>> THEN {<<>>}
    ELSE OutlierMasks(gather_layer_weights(ps))

\* one mask per layer, each detected on that layer's own weights
MaskChoices(stack) ==
    { ms \in [1..Len(stack) -> UNION { LayerMasks(stack[i]) : i \in 1..Len(stack) }] :
        \A i \in 1..Len(stack) : ms[i] \in LayerMasks(stack[i]) }

\* for i in range(len(self.layer)): _quantize(self.layer[i], gobo_quantize,
\* True, bits); an exception raised by _quantize ends the loop
RECURSIVE QuantizeLoop(_, _, _, _)
QuantizeLoop(stack, i, b, ms) ==
    IF i > Len(stack) THEN [status |-> "ok", params |-> stack, done |-> <<>>]
    ELSE LET r       == _quantize(stack[i], TRUE, b, ms[i])
             written == [stack EXCEPT ![i] = r.params]
         IN  IF r.status # "ok"
             THEN [status |-> r.status, params |-> written, done |-> <<i - 1>>]
             ELSE [QuantizeLoop(written, i + 1, b, ms) EXCEPT !.done = <<i - 1>> \o @]

\* BertEncoder.quantize(bits)
BertEncoderQuantize(stack, b, ms) == QuantizeLoop(stack, 1, b, ms)

\* tensor.index_select(0, index) of a one-column weight
index_select(data, index) == [ p \in 1..Len(index) |-> data[index[p] + 1] ]

InitStack ==
    /\ layer_count \in 1..MaxStackLayers
    /\ EncIdle
    /\ stack_params \in [1..layer_count -> StackLayers]
    /\ stack_before = stack_params
    /\ stack_status = "idle"
    /\ stack_op = [kind |-> "none", layer |-> 0, bits |-> 0]
    /\ stack_done = <<>>
    /\ stack_masks = <<>>
    /\ LayerIdle
    /\ GoboIdle
    /\ QuantIdle
    /\ ClsIdle
    /\ FeatIdle
    /\ NeuronIdle
    /\ RaceIdle
    /\ TruncIdle

\* model.bert.encoder.quantize(enc_bits) on a freshly loaded encoder
QuantizeEncoder ==
    /\ stack_status = "idle"
    /\ \E b \in 0..MaxBits :
         \E ms \in MaskChoices(stack_params) :
            \E r \in {BertEncoderQuantize(stack_params, b, ms)} :
               /\ stack_params' = r.params
               /\ stack_status' = r.status
               /\ stack_done' = r.done
               /\ stack_masks' = SubSeq(ms, 1, Len(r.done))
               /\ stack_op' = [kind |-> "quantize", layer |-> 0, bits |-> b]
    /\ stack_before' = stack_params
    /\ UNCHANGED <<encVars, widthVars, goboVars, quantVars, clsVars, featVars, neuronVars, raceVars, truncVars>>

\* self.layer[i].intermediate.reorder_neurons(index) on a freshly loaded
\* encoder, for the one-column weight of layer i
ReorderStackLayer ==
    /\ stack_status = "idle"
    /\ \E i \in 1..Len(stack_params) :
         \E index \in NeuronPermutations(Len(stack_params[i][1].data)) :
            /\ stack_params' =
                 [stack_params EXCEPT
                    ![i][1] = [data |-> index_select(@.data, index),
                               requires_grad |-> AfterCopy(@.requires_grad)]]
            /\ stack_op' = [kind |-> "reorder", layer |-> i - 1, bits |-> 0]
    /\ stack_status' = "ok"
    /\ stack_before' = stack_params
    /\ UNCHANGED <<stack_done, stack_masks>>
    /\ UNCHANGED <<encVars, widthVars, goboVars, quantVars, clsVars, featVars, neuronVars, raceVars, truncVars>>

\* setattr(m, 'depth_mult', ...) before the operation
SetStackDepthMult ==
    /\ stack_status = "idle"
    /\ SetDepthMult

NextStack == SetStackDepthMult \/ QuantizeEncoder \/ ReorderStackLayer

SpecStack == InitStack /\ [][NextStack]_vars

(***************************************************************************)
(* BertForSequenceClassification.forward                                   *)
(***************************************************************************)
MaxClsLayers == 2   \* the classifier sits on an encoder of 1..MaxClsLayers layers
MaxLabels    == 3   \* config.num_labels ranges over 1..MaxLabels

\* BertModel.forward: (sequence_output, pooled_output) + encoder_outputs[1:];
\* an error raised by the encoder is passed on
BertModelForward(L, m, flags) ==
    LET e == BertEncoderForward(L, m, flags)
    IN  [status  |-> e.status,
         encoder |-> e,
         outputs |-> IF e.status # "ok" THEN <<>>
                     ELSE <<e.outputs[1], Tensor("pooled_output", e.outputs[1].trace)>>
                          \o Tail(e.outputs)]

\* BertForSequenceClassification.forward: (logits,) + outputs[2:], with
\* (loss,) in front when labels are given; the loss is MSELoss for
\* num_labels = 1 and CrossEntropyLoss otherwise
SequenceClassificationForward(L, m, flags, nl, labels) ==
    LET b      == BertModelForward(L, m, flags)
        logits == Tensor("logits", b.outputs[2].trace)
        loss   == Tensor(IF nl = 1 THEN "MSELoss" ELSE "CrossEntropyLoss",
                         b.outputs[2].trace)
        rest   == <<logits>> \o SubSeq(b.outputs, 3, Len(b.outputs))
    IN  [status  |-> b.status,
         encoder |-> b.encoder,
         outputs |-> IF b.status # "ok" THEN <<>>
                     ELSE IF labels THEN <<loss>> \o rest
                     ELSE rest]

InitClassifier ==
    /\ layer_count \in 1..MaxClsLayers
    /\ output_hidden_states \in BOOLEAN
    /\ output_attentions \in BOOLEAN
    /\ output_intermediate \in BOOLEAN
    /\ EncStart
    /\ num_labels \in 1..MaxLabels
    /\ cls_labels = FALSE
    /\ cls_outputs = <<>>
    /\ cls_status = "idle"
    /\ LayerIdle
    /\ GoboIdle
    /\ QuantIdle
    /\ FeatIdle
    /\ NeuronIdle
    /\ StackIdle
    /\ RaceIdle
    /\ TruncIdle

\* eval_glue: setattr(m, 'depth_mult', ...) on the classification model
SetClassifierDepthMult ==
    /\ \E m \in Multipliers : depth_mult' = m
    /\ UNCHANGED <<layer_count, enc_status, depth, kept_layers_index, executed,
                   enc_hidden, fwd_depth_mult, output_hidden_states,
                   output_attentions, output_intermediate, enc_outputs,
                   layer_calls>>
    /\ UNCHANGED <<widthVars, goboVars, quantVars, clsVars, featVars, neuronVars, stackVars, raceVars, truncVars>>

\* one call model(input_ids, ..., labels=labels), labels given or None
ClassifierForward ==
    /\ \E labels \in BOOLEAN :
         \E r \in {SequenceClassificationForward(layer_count, depth_mult, OutputFlags,
                                                 num_labels, labels)} :
             /\ cls_labels' = labels
             /\ cls_outputs' = r.outputs
             /\ cls_status' = r.status
             /\ depth' = r.encoder.depth
             /\ kept_layers_index' = r.encoder.kept_layers_index
             /\ executed' = r.encoder.executed
             /\ enc_hidden' = r.encoder.hidden
             /\ enc_status' = r.encoder.status
             /\ enc_outputs' = r.encoder.outputs
             /\ layer_calls' = r.encoder.calls
    /\ fwd_depth_mult' = depth_mult
    /\ UNCHANGED <<layer_count, depth_mult, output_hidden_states, output_attentions,
                   output_intermediate, num_labels>>
    /\ UNCHANGED <<widthVars, goboVars, quantVars, featVars, neuronVars, stackVars, raceVars, truncVars>>

NextClassifier == SetClassifierDepthMult \/ ClassifierForward

SpecClassifier == InitClassifier /\ [][NextClassifier]_vars

(***************************************************************************)
(* eval_glue.convert_examples_to_features_test, one example                *)
(***************************************************************************)
MaxTokens == 4      \* a tokenized sentence has 0..MaxTokens tokens
MaxSeqLen == 6      \* max_seq_length ranges over 0..MaxSeqLen

CLS == 101          \* the id convert_tokens_to_ids gives "[CLS]"
SEP == 102          \* the id convert_tokens_to_ids gives "[SEP]"

\* the tokens of the two sentences, written as the ids convert_tokens_to_ids
\* gives them: every token differs from every other
TokensA(n) == [ p \in 1..n |-> 10 + p ]

TokensB(n) == [ p \in 1..n |-> 20 + p ]

\* [x] * n, which is [] for n <= 0
Repeat(x, n) == [ p \in 1..n |-> x ]

\* (variant: tokens_a is popped on a tie as well)
PopsTokensAOnTie(tokens_a, tokens_b) == Len(tokens_a) >= Len(tokens_b)

\* `if len(tokens_a) > len(tokens_b)`: the branch that pops tokens_a
PopsTokensA(tokens_a, tokens_b) == Len(tokens_a) > Len(tokens_b)

\* _truncate_seq_pair(tokens_a, tokens_b, max_length): pops from the longer
\* list (tokens_b on a tie) until the total fits; list.pop() on an empty list
\* raises IndexError
RECURSIVE _truncate_seq_pair(_, _, _)
_truncate_seq_pair(tokens_a, tokens_b, max_length) ==
    IF Len(tokens_a) + Len(tokens_b) <= max_length
    THEN [status |-> "ok", tokens_a |-> tokens_a, tokens_b |-> tokens_b]
    ELSE IF PopsTokensA(tokens_a, tokens_b)
    THEN _truncate_seq_pair(SubSeq(tokens_a, 1, Len(tokens_a) - 1), tokens_b, max_length)
    ELSE IF tokens_b = <<>>
    THEN [status |-> "IndexError", tokens_a |-> tokens_a, tokens_b |-> tokens_b]
    ELSE _truncate_seq_pair(tokens_a, SubSeq(tokens_b, 1, Len(tokens_b) - 1), max_length)

\* (variant: a pair is given the room of a single sentence)
PairRoomOfSingle(msl) == msl - 2

\* the room for the tokens of a pair: "[CLS]", "[SEP]", "[SEP]" take three
PairRoom(msl) == msl - 3

\* the room for the tokens of a single sentence: "[CLS]" and "[SEP]" take two
SingleRoom(msl) == msl - 2

\* label_list of the task
LabelList == <<"0", "1">>

\* label_id: label_map[example.label] for classification, float(example.label)
\* for regression; any exception (unknown label, unknown mode, a label that
\* is no number) is swallowed and gives 0
LabelId(mode, label) ==
    IF mode \in {"classification", "regression"}
       /\ \E p \in 1..Len(LabelList) : LabelList[p] = label
    THEN (CHOOSE p \in 1..Len(LabelList) : LabelList[p] = label) - 1
    ELSE 0

\* the body of the loop for one example
convert_example(tokens_a0, text_b, tokens_b0, msl) ==
    LET tr == IF text_b
              THEN _truncate_seq_pair(tokens_a0, tokens_b0, PairRoom(msl))
              ELSE [status |-> "ok",
                    tokens_a |-> IF Len(tokens_a0) > SingleRoom(msl)
                                 THEN Leading(tokens_a0, SingleRoom(msl))
                                 ELSE tokens_a0,
                    tokens_b |-> <<>>]
        first   == <<CLS>> \o tr.tokens_a \o <<SEP>>
        tokens  == IF tr.tokens_b # <<>> THEN first \o tr.tokens_b \o <<SEP>> ELSE first
        segs    == Repeat(0, Len(first))
                   \o (IF tr.tokens_b # <<>> THEN Repeat(1, Len(tr.tokens_b) + 1) ELSE <<>>)
        padding == Repeat(0, msl - Len(tokens))
        ids     == tokens \o padding
        mask    == Repeat(1, Len(tokens)) \o padding
        segment == segs \o padding
    IN  IF tr.status # "ok"
        THEN [status |-> tr.status, input_ids |-> <<>>, input_mask |-> <<>>,
              segment_ids |-> <<>>, seq_length |-> 0]
        ELSE [status |-> IF Len(ids) = msl /\ Len(mask) = msl /\ Len(segment) = msl
                         THEN "ok" ELSE "AssertionError",
              input_ids |-> ids, input_mask |-> mask, segment_ids |-> segment,
              seq_length |-> Len(tokens)]

InitFeatures ==
    /\ max_seq_length \in 0..MaxSeqLen
    /\ output_mode \in {"classification", "regression", "other"}
    /\ ex_tokens_a \in { TokensA(n) : n \in 0..MaxTokens }
    /\ ex_text_b \in BOOLEAN
    /\ ex_tokens_b \in IF ex_text_b THEN { TokensB(n) : n \in 0..MaxTokens } ELSE {<<>>}
    /\ ex_label \in {"0", "1", "x"}
    /\ input_ids = <<>>
    /\ input_mask = <<>>
    /\ segment_ids = <<>>
    /\ seq_length = 0
    /\ label_id = 0
    /\ feat_status = "idle"
    /\ layer_count = 1
    /\ EncIdle
    /\ LayerIdle
    /\ GoboIdle
    /\ QuantIdle
    /\ ClsIdle
    /\ NeuronIdle
    /\ StackIdle
    /\ RaceIdle
    /\ TruncIdle

\* one iteration of `for (ex_index, example) in enumerate(examples)`
ConvertExample ==
    /\ feat_status = "idle"
    /\ LET r == convert_example(ex_tokens_a, ex_text_b, ex_tokens_b, max_seq_length)
       IN  /\ feat_status' = r.status
           /\ input_ids' = r.input_ids
           /\ input_mask' = r.input_mask
           /\ segment_ids' = r.segment_ids
           /\ seq_length' = r.seq_length
           /\ label_id' = IF r.status = "ok" THEN LabelId(output_mode, ex_label) ELSE 0
    /\ UNCHANGED <<max_seq_length, output_mode, ex_tokens_a, ex_text_b, ex_tokens_b,
                   ex_label>>
    /\ UNCHANGED <<encVars, widthVars, goboVars, quantVars, clsVars, neuronVars, stackVars, raceVars, truncVars>>

NextFeatures == ConvertExample

SpecFeatures == InitFeatures /\ [][NextFeatures]_vars

(***************************************************************************)
(* eval_glue._truncate_seq_pair, one iteration of its loop at a time       *)
(***************************************************************************)
\* list.pop(): the list without its last element
Popped(tokens) == SubSeq(tokens, 1, Len(tokens) - 1)

\* the call _truncate_seq_pair(tokens_a, tokens_b, max_seq_length - 3) of
\* convert_examples_to_features_test, on entry
InitTruncate ==
    /\ trunc_tokens_a \in { TokensA(n) : n \in 0..MaxTokens }
    /\ trunc_tokens_b \in { TokensB(n) : n \in 0..MaxTokens }
    /\ trunc_max_length \in { PairRoom(msl) : msl \in 0..MaxSeqLen }
    /\ trunc_orig = [tokens_a |-> trunc_tokens_a, tokens_b |-> trunc_tokens_b]
    /\ trunc_pops = <<>>
    /\ trunc_pc = "loop"
    /\ layer_count = 1
    /\ EncIdle
    /\ LayerIdle
    /\ GoboIdle
    /\ QuantIdle
    /\ ClsIdle
    /\ FeatIdle
    /\ NeuronIdle
    /\ StackIdle
    /\ RaceIdle

TruncateFrame ==
    /\ UNCHANGED <<trunc_max_length, trunc_orig>>
    /\ UNCHANGED <<encVars, widthVars, goboVars, quantVars, clsVars, featVars, neuronVars, stackVars, raceVars>>

\* total_length <= max_length: break
TruncateBreak ==
    /\ trunc_pc = "loop"
    /\ Len(trunc_tokens_a) + Len(trunc_tokens_b) <= trunc_max_length
    /\ trunc_pc' = "done"
    /\ UNCHANGED <<trunc_tokens_a, trunc_tokens_b, trunc_pops>>
    /\ TruncateFrame

\* tokens_a.pop()
TruncatePopA ==
    /\ trunc_pc = "loop"
    /\ Len(trunc_tokens_a) + Len(trunc_tokens_b) > trunc_max_length
    /\ PopsTokensA(trunc_tokens_a, trunc_tokens_b)
    /\ trunc_tokens_a' = Popped(trunc_tokens_a)
    /\ trunc_pops' = Append(trunc_pops, [list |-> "tokens_a",
                                         len_a |-> Len(trunc_tokens_a),
                                         len_b |-> Len(trunc_tokens_b)])
    /\ UNCHANGED <<trunc_tokens_b, trunc_pc>>
    /\ TruncateFrame

\* tokens_b.pop(), which raises IndexError on an empty list
TruncatePopB ==
    /\ trunc_pc = "loop"
    /\ Len(trunc_tokens_a) + Len(trunc_tokens_b) > trunc_max_length
    /\ ~PopsTokensA(trunc_tokens_a, trunc_tokens_b)
    /\ IF trunc_tokens_b = <<>>
       THEN /\ trunc_pc' = "IndexError"
            /\ UNCHANGED <<trunc_tokens_b, trunc_pops>>
       ELSE /\ trunc_tokens_b' = Popped(trunc_tokens_b)
            /\ trunc_pops' = Append(trunc_pops, [list |-> "tokens_b",
                                                 len_a |-> Len(trunc_tokens_a),
                                                 len_b |-> Len(trunc_tokens_b)])
            /\ UNCHANGED trunc_pc
    /\ UNCHANGED trunc_tokens_a
    /\ TruncateFrame

NextTruncate == TruncateBreak \/ TruncatePopA \/ TruncatePopB

\* the loop runs on its own thread of control: an iteration that can be
\* made is made
SpecTruncate == InitTruncate /\ [][NextTruncate]_vars /\ WF_vars(NextTruncate)

(***************************************************************************)
(* Claims about the depth selection (checked under SpecDepth)              *)
(***************************************************************************)
Abs(x) == IF x >= 0 THEN x ELSE -x

\* n is round(a / b): the nearest integer, the even one on a tie
IsRoundOf(n, a, b) ==
    \/ 2 * Abs(n * b - a) < b
    \/ 2 * Abs(n * b - a) = b /\ n % 2 = 0

\* e is floor(i / m)
IsFloorOfQuotient(e, i, m) == e * m.num <= i * m.den /\ i * m.den < (e + 1) * m.num

EncForwardRan == enc_status # "idle"

\* C1: forward executes exactly the layers floor(i / depth_mult) for
\* i = 0 .. round(depth_mult * L) - 1, in that order, each once; L = 12 with
\* depth_mult = 0.5 gives [0,2,4,6,8,10] and depth_mult = 1 gives 0..L-1.
C1_ExecutedLayers ==
    EncForwardRan =>
        /\ enc_status = "ok"
        /\ IsRoundOf(Len(executed), fwd_depth_mult.num * layer_count, fwd_depth_mult.den)
        /\ \A j \in 1..Len(executed) : IsFloorOfQuotient(executed[j], j - 1, fwd_depth_mult)
        /\ (layer_count = 12 /\ 2 * fwd_depth_mult.num = fwd_depth_mult.den)
               => executed = <<0, 2, 4, 6, 8, 10>>
        /\ (fwd_depth_mult.num = fwd_depth_mult.den)
               => executed = [ j \in 1..layer_count |-> j - 1 ]

\* C2: for depth_mult in (0, 1] the active indices are strictly increasing and
\* each is >= 0 and < L, so no layer access is out of range.
C2_StrictlyIncreasingInRange ==
    (EncForwardRan /\ fwd_depth_mult.num > 0) =>
        /\ \A j \in 1..Len(kept_layers_index) :
              /\ 0 <= kept_layers_index[j]
              /\ kept_layers_index[j] < layer_count
              /\ j > 1 => kept_layers_index[j - 1] < kept_layers_index[j]
        /\ enc_status # "IndexError: self.layer"

C2_Witness ==
    /\ enc_status = "ok"
    /\ fwd_depth_mult = Mult(5, 6)
    /\ layer_count = 11
    /\ kept_layers_index = <<0, 1, 2, 3, 4, 6, 7, 8, 9>>

\* C3: for depth_mult in (0, 1] and L >= 1 the active layer count is
\* round(depth_mult * L), the active set is non-empty and starts with layer 0.
C3_NonEmptyFromLayerZero ==
    (EncForwardRan /\ fwd_depth_mult.num > 0) =>
        /\ IsRoundOf(Len(kept_layers_index), fwd_depth_mult.num * layer_count,
                     fwd_depth_mult.den)
        /\ Len(kept_layers_index) >= 1
        /\ kept_layers_index[1] = 0

\* C4: a multiplier that yields zero active layers is rejected with an error;
\* forward never returns its input hidden state after running no layer.
C4_EmptyStackRejected ==
    (EncForwardRan /\ executed = <<>>) => enc_status # "ok"

Flag(b) == IF b THEN 1 ELSE 0

\* the tuple the claim C20 describes, for the layers the forward ran
ExpectedEncoderOutputs ==
    LET k == Len(kept_layers_index)
    IN  <<Tensor("hidden_states", executed)>>
        \o (IF output_hidden_states
            THEN <<Collection("all_hidden_states",
                     [ j \in 1..(k + 1) |->
                         Tensor("hidden_states", SubSeq(executed, 1, j - 1)) ])>>
            ELSE <<>>)
        \o (IF output_attentions
            THEN <<Collection("all_attentions",
                     [ j \in 1..k |->
                         Tensor("attention_scores", SubSeq(executed, 1, j)) ])>>
            ELSE <<>>)
        \o (IF output_intermediate
            THEN <<Collection("all_intermediate",
                     [ j \in 1..k |->
                         Tensor("intermediate_output", SubSeq(executed, 1, j)) ])>>
            ELSE <<>>)

\* C20: for every combination of output_hidden_states, output_attentions and
\* output_intermediate, forward completes without error and returns the final
\* hidden state followed by exactly the enabled collections, in the order
\* hidden states, attentions, intermediates; with k active layers there are
\* k + 1 hidden states, k attention entries and k intermediate entries, the
\* latter being the layers' post-activation feed-forward outputs.
C20_EncoderOutputs ==
    EncForwardRan =>
        /\ enc_status = "ok"
        /\ Len(executed) = Len(kept_layers_index)
        /\ Len(enc_outputs) = 1 + Flag(output_hidden_states) + Flag(output_attentions)
                                + Flag(output_intermediate)
        /\ enc_outputs = ExpectedEncoderOutputs

(***************************************************************************)
(* Claims about the classification head (checked under SpecClassifier)     *)
(***************************************************************************)
ClassifierForwardRan == cls_status # "idle"

LossKinds == {"MSELoss", "CrossEntropyLoss"}

\* what the claim C18 says of a returned tuple
LossThenLogits ==
    /\ Len(cls_outputs) >= 1
    /\ (cls_outputs[1].kind \in LossKinds) = cls_labels
    /\ ~cls_labels => cls_outputs[1].kind = "logits"
    /\ cls_labels =>
          /\ Len(cls_outputs) >= 2
          /\ cls_outputs[2].kind = "logits"
          /\ (cls_outputs[1].kind = "MSELoss") = (num_labels = 1)
          /\ (cls_outputs[1].kind = "CrossEntropyLoss") = (num_labels # 1)
    /\ Cardinality({ p \in 1..Len(cls_outputs) : cls_outputs[p].kind = "logits" }) = 1
    /\ Cardinality({ p \in 1..Len(cls_outputs) : cls_outputs[p].kind \in LossKinds })
       = Flag(cls_labels)

\* C18: forward always returns the logits; a loss stands in front of them if
\* and only if labels were given; that loss is the mean-squared error exactly
\* when num_labels = 1 and the cross-entropy otherwise; without labels the
\* logits are the first element.
C18_LossAndLogits ==
    ClassifierForwardRan => (cls_status = "ok" /\ LossThenLogits)

(***************************************************************************)
(* Claims about the width arithmetic (checked under SpecWidth)             *)
(***************************************************************************)
LayerForwardRan == att_status # "idle"

\* C5: for width_mult in (0, 1] and h >= 1 heads, the head count used to
\* reshape query/key/value is round(h * width_mult) and is at least 1.
C5_ActiveHeadsAtLeastOne ==
    (LayerForwardRan /\ fwd_width_mult.num > 0) =>
        /\ IsRoundOf(num_attention_heads, num_heads * fwd_width_mult.num,
                     fwd_width_mult.den)
        /\ num_attention_heads >= 1

\* C6: with one width_mult in (0, 1] on all projections of an attention
\* block, the query/key/value output widths, active_heads * head_dim and the
\* output projection's input width are equal, and no forward hits a shape
\* mismatch.
C6_AttentionWidthsAgree ==
    (LayerForwardRan /\ fwd_width_mult.num > 0) =>
        /\ lin["query"].out_features = num_attention_heads * head_size
        /\ lin["key"].out_features = num_attention_heads * head_size
        /\ lin["value"].out_features = num_attention_heads * head_size
        /\ lin["attn_out"].in_features = num_attention_heads * head_size
        /\ att_status = "ok"

\* C15: DynaLinear.forward never changes the stored full-size parameters:
\* after any sequence of forward calls at any width multipliers the weight,
\* the bias, in_features_max and out_features_max are what the constructor
\* made them, and each transform used only the leading
\* out_features x in_features block of the weight and the leading
\* out_features bias entries.
C15_ForwardKeepsParameters ==
    /\ lin_weight = InitWeight(num_heads, head_size, intermediate_size)
    /\ lin_bias = InitBias(num_heads, head_size, intermediate_size)
    /\ \A name \in LinNames :
          /\ lin[name].in_features_max
             = in_features_max(name, num_heads, head_size, intermediate_size)
          /\ lin[name].out_features_max
             = out_features_max(name, num_heads, head_size, intermediate_size)
          /\ Len(lin_weight[name].rows) = lin[name].out_features_max
          /\ Len(lin_weight[name].cols) = lin[name].in_features_max
          /\ Len(lin_bias[name]) = lin[name].out_features_max
          /\ used[name] # NoSlice =>
                /\ used[name].rows = [ r \in 1..lin[name].out_features |-> r - 1 ]
                /\ used[name].cols = [ c \in 1..lin[name].in_features |-> c - 1 ]
                /\ used[name].bias = [ r \in 1..lin[name].out_features |-> r - 1 ]

\* a forward at half width after one at quarter width: four of the eight query
\* rows were used and all eight are still stored
C15_Witness ==
    /\ att_status = "ok"
    /\ num_heads = 4 /\ head_size = 2
    /\ prev_num_attention_heads = 1
    /\ num_attention_heads = 2
    /\ used["query"].rows = <<0, 1, 2, 3>>
    /\ lin_weight["query"].rows = <<0, 1, 2, 3, 4, 5, 6, 7>>

\* the size int(round(h * w) / h * size) clamped to 1, for the multiplier the
\* last forward read
ElasticSize(size) ==
    LET cands == { n \in 0..num_heads :
                     IsRoundOf(n, num_heads * fwd_width_mult.num, fwd_width_mult.den) }
        n     == CHOOSE x \in cands : TRUE
        s     == CHOOSE x \in 0..size : x * num_heads <= n * size
                                        /\ n * size < (x + 1) * num_heads
    IN  IF s >= 1 THEN s ELSE 1

\* C16: whatever widths were set and whatever forwards ran before, a forward
\* uses a head count and slice sizes that follow from the multiplier current
\* at that call alone; whether it succeeds depends on that multiplier alone,
\* so no reinitialisation is needed between calls.
C16_ForwardDependsOnCurrentWidthOnly ==
    LayerForwardRan =>
        /\ IsRoundOf(num_attention_heads, num_heads * fwd_width_mult.num,
                     fwd_width_mult.den)
        /\ all_head_size = num_attention_heads * head_size
        /\ \A name \in {"query", "key", "value"} :
              /\ lin[name].in_features = num_heads * head_size
              /\ lin[name].out_features = ElasticSize(num_heads * head_size)
              /\ Len(used[name].rows) = lin[name].out_features
              /\ Len(used[name].cols) = lin[name].in_features
        /\ (att_status = "ok") = (num_attention_heads >= 1)
        /\ att_status = "ok" =>
              /\ lin["attn_out"].in_features = ElasticSize(num_heads * head_size)
              /\ lin["attn_out"].out_features = num_heads * head_size
              /\ lin["inter"].in_features = num_heads * head_size
              /\ lin["inter"].out_features = ElasticSize(intermediate_size)
              /\ lin["ffn_out"].in_features = ElasticSize(intermediate_size)
              /\ lin["ffn_out"].out_features = num_heads * head_size
              /\ \A name \in LinNames :
                    /\ Len(used[name].rows) = lin[name].out_features
                    /\ Len(used[name].cols) = lin[name].in_features

\* a forward with three of four heads right after one that failed with none
C16_Witness ==
    /\ att_status = "ok"
    /\ num_heads = 4
    /\ prev_num_attention_heads = 0
    /\ num_attention_heads = 3
    /\ lin["query"].out_features = 3 * head_size
    /\ lin["attn_out"].in_features = 3 * head_size


(***************************************************************************)
(* Claims about reorder_heads (checked under SpecReorder)                  *)
(***************************************************************************)
ReorderRan == reorder_status # "idle"

\* the rows of query, key and value, their biases and the columns of the
\* output projection are in one and the same order, which moves whole heads
SameHeadGroupedOrder ==
    LET order == lin_weight["query"].rows
    IN  /\ lin_weight["key"].rows = order
        /\ lin_weight["value"].rows = order
        /\ lin_weight["attn_out"].cols = order
        /\ lin_bias["query"] = order
        /\ lin_bias["key"] = order
        /\ lin_bias["value"] = order
        /\ Len(order) = num_heads * head_size
        /\ \A j \in 0..(num_heads - 1) :
              /\ order[j * head_size + 1] % head_size = 0
              /\ \A e \in 0..(head_size - 1) :
                    order[j * head_size + 1 + e] = order[j * head_size + 1] + e

\* C17: reorder_heads(idx), for any order idx of all heads, applies one
\* head-grouped index to the rows and biases of query, key and value and to
\* the columns of the output projection, leaves the output projection's bias
\* alone, and a forward at width_mult = 1.0 computes the same output as
\* before any reordering.
C17_ReorderKeepsFullWidthOutput ==
    ReorderRan =>
        /\ reorder_status = "ok"
        /\ SameHeadGroupedOrder
        /\ lin_bias["attn_out"]
           = InitBias(num_heads, head_size, intermediate_size)["attn_out"]
        /\ AttentionOutput(lin_weight, lin_bias, num_heads, head_size)
           = AttentionOutput(InitWeight(num_heads, head_size, intermediate_size),
                             InitBias(num_heads, head_size, intermediate_size),
                             num_heads, head_size)


(***************************************************************************)
(* Claims about gobo_quantize (checked under SpecGobo)                     *)
(***************************************************************************)
GoboReturned == gobo_status = "ok"

\* the sorted non-outlier values of the call
GGroup == SortSeq(MaskSelect(weights, o_idx, FALSE), LAMBDA x, y : FLt(x, y))

\* C7: gobo_quantize returns a vector of the same length that equals the
\* input exactly at every position the outlier mask marks, whatever the
\* outlier's value and position.
C7_OutliersPreserved ==
    GoboReturned =>
        /\ Len(new_weights) = Len(weights)
        /\ \A i \in 1..Len(weights) : o_idx[i] => new_weights[i] = weights[i]

\* C8: every non-outlier position of the result holds the centroid of one of
\* the 2^bits real bins; the sentinel of the outlier bucket never stays there.
C8_NoSentinelLeft ==
    GoboReturned =>
        \A i \in 1..Len(weights) :
            ~o_idx[i] =>
                \E k \in 1..(2 ^ bits) : new_weights[i] = Centroids(GGroup, 2 ^ bits)[k]

\* the bins as the specification describes them: 2^bits contiguous runs of
\* floor(n / 2^bits) sorted values, the final one taking the remainder too
RunFirst(k, n, n_bins) == (k - 1) * (n \div n_bins) + 1

RunLast(k, n, n_bins) == IF k = n_bins THEN n ELSE k * (n \div n_bins)

\* C10: each non-outlier weight is replaced by the arithmetic mean of the run
\* that contains it.  Stated for calls that give every bin at least one value
\* and for the positions that received a real centroid.
C10_CentroidIsBinMean ==
    (GoboReturned /\ Len(GGroup) >= 2 ^ bits) =>
        \A i \in 1..Len(weights) :
            (~o_idx[i] /\ \E c \in 1..(2 ^ bits) :
                             new_weights[i] = Centroids(GGroup, 2 ^ bits)[c]
                             /\ new_weights[i] # SENTINEL) =>
                \E k \in 1..(2 ^ bits) :
                    LET lo == RunFirst(k, Len(GGroup), 2 ^ bits)
                        hi == RunLast(k, Len(GGroup), 2 ^ bits)
                    IN  /\ \E j \in lo..hi : GGroup[j] = weights[i]
                        /\ new_weights[i] = Average(SubSeq(GGroup, lo, hi))

\* the values the result holds at the non-outlier positions
QuantizedValues == { new_weights[i] : i \in { j \in 1..Len(weights) : ~o_idx[j] } }

\* C11: over the non-outlier positions the result takes at most 2^bits
\* distinct values, whatever the bit-width and the vector (vectors with fewer
\* than 2^bits non-outlier values included).
C11_AtMostTwoPowBitsValues ==
    GoboReturned => Cardinality(QuantizedValues) <= 2 ^ bits

\* C12: the mapping from value to centroid is the same at every position and
\* monotonic: over the non-outlier positions W[i] <= W[j] implies
\* Q[i] <= Q[j], and W[i] = W[j] implies Q[i] = Q[j].
C12_MonotonicValueMapping ==
    GoboReturned =>
        \A i, j \in { p \in 1..Len(weights) : ~o_idx[p] } :
            /\ FLe(weights[i], weights[j]) => FLe(new_weights[i], new_weights[j])
            /\ FEq(weights[i], weights[j]) => FEq(new_weights[i], new_weights[j])

\* C13: with more bins than non-outlier values (2^bits > n, as for bits = 32)
\* the result reproduces the input: every position equals its original value.
C13_MoreBinsThanValuesIsLossless ==
    (GoboReturned /\ 2 ^ bits > Len(GGroup)) =>
        /\ Len(new_weights) = Len(weights)
        /\ \A i \in 1..Len(weights) : new_weights[i] = weights[i]

(***************************************************************************)
(* Claims about _quantize (checked under SpecQuant)                        *)
(***************************************************************************)
\* C9: _quantize returns normally only if the outlier count matches, and
\* whenever some outlier position does not hold its original value after the
\* write-back the assertion fails.
C9_LostOutlierAborts ==
    q_status = "ok" =>
        /\ o_count = o_group_len
        /\ \A i \in 1..Len(q_o_idx) :
              q_o_idx[i] =>
                 gather_layer_weights(params)[i] = gather_layer_weights(params_before)[i]

\* _quantize reached its write-back loop (the assertion comes after it)
WroteBack == q_status \in {"ok", "AssertionError"}

\* the number of scalars in the trainable tensors that precede tensor k
RECURSIVE TrainableBefore(_, _)
TrainableBefore(ps, k) ==
    IF k <= 1 THEN 0
    ELSE TrainableBefore(ps, k - 1)
         + (IF ps[k - 1].requires_grad THEN Len(ps[k - 1].data) ELSE 0)

\* C14: each trainable tensor receives exactly the slice of the quantized
\* vector that starts at its offset in the gathered vector (the element count
\* of the trainable tensors before it) and has its element count; frozen
\* tensors are neither gathered nor written; the quantized vector is consumed
\* exactly; shapes and requires_grad flags are kept.
C14_WriteBackSlices ==
    /\ Len(params) = Len(params_before)
    /\ \A k \in 1..Len(params) :
          /\ params[k].requires_grad = params_before[k].requires_grad
          /\ Len(params[k].data) = Len(params_before[k].data)
          /\ ~params_before[k].requires_grad => params[k].data = params_before[k].data
          /\ params_before[k].requires_grad =>
                \A e \in 1..Len(params_before[k].data) :
                    /\ gather_layer_weights(params_before)
                           [TrainableBefore(params_before, k) + e]
                       = params_before[k].data[e]
                    /\ WroteBack =>
                         params[k].data[e]
                         = q_new_weights[TrainableBefore(params_before, k) + e]
    /\ WroteBack =>
          Len(q_new_weights) = TrainableBefore(params_before, Len(params_before) + 1)
    /\ ~WroteBack => params = params_before

\* a trainable tensor, a frozen one and a second trainable tensor: the second
\* one received the entry after the first one's, and the frozen one none
C14_Witness ==
    /\ q_status = "ok"
    /\ Len(params) = 3
    /\ params[1].requires_grad /\ ~params[2].requires_grad /\ params[3].requires_grad
    /\ Len(q_new_weights) = 2
    /\ q_new_weights[1] # q_new_weights[2]
    /\ params[3].data = <<q_new_weights[2]>>
    /\ params[2].data = params_before[2].data

(***************************************************************************)
(* Claims about the feature conversion (checked under SpecFeatures)        *)
(***************************************************************************)
ConvertRan == feat_status # "idle"

\* C19: for every example, single sentence or pair, of any token lengths, and
\* max_seq_length >= 3, input_ids, input_mask and segment_ids are each exactly
\* max_seq_length long, input_mask is 1 on the first seq_length positions and
\* 0 on the rest, input_ids and segment_ids are 0 on every padded position,
\* and none of the three length assertions fails.
C19_FeatureLengthsAndPadding ==
    (ConvertRan /\ max_seq_length >= 3) =>
        /\ feat_status = "ok"
        /\ Len(input_ids) = max_seq_length
        /\ Len(input_mask) = max_seq_length
        /\ Len(segment_ids) = max_seq_length
        /\ seq_length \in 0..max_seq_length
        /\ \A p \in 1..max_seq_length :
              /\ input_mask[p] = (IF p <= seq_length THEN 1 ELSE 0)
              /\ p > seq_length => (input_ids[p] = 0 /\ segment_ids[p] = 0)

\* a pair of 4 and 3 tokens cut down to one token each to fit 5 positions
C19_Witness ==
    /\ feat_status = "ok"
    /\ ex_text_b
    /\ Len(ex_tokens_a) = 4 /\ Len(ex_tokens_b) = 3
    /\ max_seq_length = 5
    /\ input_ids = <<101, 11, 102, 21, 102>>
    /\ segment_ids = <<0, 0, 0, 1, 1>>



\* C21: a call reorder_heads(idx) with an order idx of all h heads has the
\* effect of the reordering built with the original head count h on the
\* parameters it found, whatever forward calls at a reduced width came
\* before it.
C21_ReorderUsesOriginalHeadCount ==
    [][ReorderHeads =>
         \E idx \in HeadPermutations(num_heads) :
            LET r == reorder_heads(idx, num_heads, head_size, lin_weight, lin_bias)
            IN  /\ reorder_status' = "ok"
                /\ lin_weight' = r.weight
                /\ lin_bias' = r.bias]_vars


(***************************************************************************)
(* Claims about requires_grad (checked under SpecGrad)                     *)
(***************************************************************************)
\* C22: reorder_heads and both reorder_neurons methods leave every weight
\* and bias with the requires_grad flag it had before the call.
C22_ReorderKeepsRequiresGrad ==
    [][(ReorderHeads \/ ReorderIntermediateNeurons \/ ReorderOutputNeurons)
         => requires_grad' = requires_grad]_vars

(***************************************************************************)
(* Claims about reorder_neurons (checked under SpecNeurons)                *)
(***************************************************************************)
NeuronsRan == neuron_status # "idle"

\* seq[index], 0-based entries of index
Gathered(seq, index) == [ r \in 1..Len(index) |-> seq[index[r] + 1] ]

\* expand rows, expand bias and project columns are in one and the same order
ConsistentNeurons(W, B) ==
    /\ W["inter"].rows = W["ffn_out"].cols
    /\ B["inter"] = W["inter"].rows

\* C26: BertIntermediate.reorder_neurons(index) puts the old row index[r] of
\* the expand weight at row r and the old entry index[r] of the expand bias
\* at entry r; BertOutput.reorder_neurons(index) puts the old column index[c]
\* of the project weight at column c and leaves the project bias as it was;
\* each call leaves every other parameter alone; the block computes what it
\* computed after construction exactly when expand rows, expand bias and
\* project columns are in the same order, which a single call with an index
\* that moves a neuron breaks.
C26_ReorderNeuronsRowsAndColumns ==
    NeuronsRan =>
        LET index == neuron_call.index
            W0    == neuron_before.weight
            B0    == neuron_before.bias
            own   == IF neuron_call.module = "intermediate" THEN "inter" ELSE "ffn_out"
        IN  /\ neuron_status = "ok"
            /\ neuron_call.module \in {"intermediate", "output"}
            /\ neuron_call.module = "intermediate" =>
                  /\ lin_weight["inter"].rows = Gathered(W0["inter"].rows, index)
                  /\ lin_weight["inter"].cols = W0["inter"].cols
                  /\ lin_bias["inter"] = Gathered(B0["inter"], index)
            /\ neuron_call.module = "output" =>
                  /\ lin_weight["ffn_out"].cols = Gathered(W0["ffn_out"].cols, index)
                  /\ lin_weight["ffn_out"].rows = W0["ffn_out"].rows
                  /\ lin_bias["ffn_out"] = B0["ffn_out"]
            /\ \A name \in LinNames \ {own} :
                  lin_weight[name] = W0[name] /\ lin_bias[name] = B0[name]
            /\ ConsistentNeurons(lin_weight, lin_bias)
               <=> FeedForwardOutput(lin_weight, lin_bias)
                   = FeedForwardOutput(InitWeight(num_heads, head_size, intermediate_size),
                                       InitBias(num_heads, head_size, intermediate_size))
            /\ (ConsistentNeurons(W0, B0) /\ index # Arange(Len(index)))
                  => ~ConsistentNeurons(lin_weight, lin_bias)

\* both calls were made with the index [1, 2, 0], the project one last: row 0
\* and column 0 now hold what neuron 1 held, and the block is consistent again
C26_Witness ==
    /\ neuron_status = "ok"
    /\ neuron_call = [module |-> "output", index |-> <<1, 2, 0>>]
    /\ lin_weight["inter"].rows = <<1, 2, 0>>
    /\ lin_bias["inter"] = <<1, 2, 0>>
    /\ lin_weight["ffn_out"].cols = <<1, 2, 0>>
    /\ ~ConsistentNeurons(neuron_before.weight, neuron_before.bias)
    /\ ConsistentNeurons(lin_weight, lin_bias)


(***************************************************************************)
(* Claims about a failed _quantize (checked under SpecQuant)               *)
(***************************************************************************)
\* C23: when _quantize aborts on its outlier-count assertion, every
\* parameter of the layer still holds the value it had before the call.
C23_AssertionLeavesLayerUntouched ==
    q_status = "AssertionError" => params = params_before


\* C29: _quantize called with detect_o = False returns normally, with every
\* trainable weight of the layer replaced by one of the bin centroids
\* gobo_quantize computes from the whole (outlier-free) weight vector.
C29_NoDetectionQuantizesEverything ==
    (q_status # "idle" /\ ~q_detect_o) =>
        /\ q_status = "ok"
        /\ LET w     == gather_layer_weights(params_before)
               nw    == gather_layer_weights(params)
               cents == Centroids(SortSeq(w, LAMBDA x, y : FLt(x, y)), 2 ^ q_bits)
           IN  \A i \in 1..Len(nw) : \E c \in 1..Len(cents) : nw[i] = cents[c]


(***************************************************************************)
(* Claims about the layer stack (checked under SpecStack)                  *)
(***************************************************************************)
StackRan == stack_status # "idle"

\* C24: a reordering of one layer leaves the parameters of every other
\* layer as they were; BertEncoder.quantize(bits) calls _quantize on each of
\* the L layers once, in index order, whatever depth_mult is, and leaves
\* each layer as _quantize leaves it with an outlier mask detected on that
\* layer's own weights.
C24_OneLayerAtATime ==
    StackRan =>
        /\ Len(stack_params) = layer_count
        /\ stack_op.kind = "reorder" =>
              \A j \in 1..layer_count :
                  j # stack_op.layer + 1 => stack_params[j] = stack_before[j]
        /\ stack_op.kind = "quantize" =>
              /\ stack_status = "ok"
              /\ stack_done = Arange(layer_count)
              /\ Len(stack_masks) = layer_count
              /\ \A j \in 1..layer_count :
                    /\ stack_masks[j] \in LayerMasks(stack_before[j])
                    /\ stack_params[j]
                       = _quantize(stack_before[j], TRUE, stack_op.bits,
                                   stack_masks[j]).params


(***************************************************************************)
(* Claims about reorder_heads next to forward passes (checked under        *)
(* SpecRace)                                                               *)
(***************************************************************************)
ForwardObserved == att_status # "idle"

\* C25: a forward pass that runs while no reorder_heads call is in progress
\* is handed query, key, value and output-projection weights in one head
\* order; a forward pass that runs after the first and before the last of
\* the four copies of a call whose idx moves a head is handed weights that
\* are not in one order.
C25_SerializedForwardSeesOneOrder ==
    ForwardObserved =>
        /\ observed_at.pc = 0 => OneHeadOrder(used)
        /\ (observed_at.pc \in 2..4 /\ observed_at.idx # Arange(num_heads))
              => (~OneHeadOrder(used) /\ mixed_observed)

\* a forward between the copies saw mixed weights, and a forward after the
\* whole call with idx = [1, 0] sees both heads swapped in all four modules
C25_Witness ==
    /\ mixed_observed
    /\ observed_at = [pc |-> 0, idx |-> <<1, 0>>]
    /\ reorder_status = "ok"
    /\ used["query"].rows # Arange(num_heads * head_size)
    /\ OneHeadOrder(used)


(***************************************************************************)
(* Claims about the calls BertEncoder.forward makes (checked under         *)
(* SpecDepth)                                                              *)
(***************************************************************************)
\* C27: the k-th layer call of BertEncoder.forward is made on layer
\* floor((k - 1) / depth_mult), with the head-mask entry of that layer index
\* and with the hidden state the previous call returned (the encoder's input
\* for the first call); layers that are not in kept_layers_index are never
\* called, and a forward that returns has called every kept layer.
C27_HiddenStateAndHeadMaskThreading ==
    EncForwardRan =>
        /\ Len(layer_calls) = Len(executed)
        /\ Len(layer_calls) <= Len(kept_layers_index)
        /\ enc_status = "ok" => Len(layer_calls) = Len(kept_layers_index)
        /\ \A k \in 1..Len(layer_calls) :
              /\ layer_calls[k].layer = executed[k]
              /\ layer_calls[k].layer = kept_layers_index[k]
              /\ IsFloorOfQuotient(layer_calls[k].layer, k - 1, fwd_depth_mult)
              /\ layer_calls[k].head_mask = layer_calls[k].layer
              /\ layer_calls[k].hidden_states
                 = Tensor("hidden_states", SubSeq(executed, 1, k - 1))
        /\ enc_status = "ok" => enc_hidden = executed

\* 4 layers at depth_mult = 1/2: layers 0 and 2 are called with head-mask
\* entries 0 and 2, layer 2 on the output of layer 0
C27_Witness ==
    /\ enc_status = "ok"
    /\ layer_count = 4
    /\ fwd_depth_mult = Mult(1, 2)
    /\ Len(layer_calls) = 2
    /\ layer_calls[2] = [layer |-> 2, head_mask |-> 2,
                         hidden_states |-> Tensor("hidden_states", <<0>>)]


(***************************************************************************)
(* Claims about the DynaLinear sizes (checked under SpecWidth)             *)
(***************************************************************************)
\* C28: after any sequence of DynaLinear.forward calls with width multipliers
\* in (0, 1], every instance has 1 <= in_features <= in_features_max and
\* 1 <= out_features <= out_features_max, and the dimension that is not
\* elastic at its instantiation site equals its maximum: the input of
\* query/key/value and of the feed-forward expand, the output of the
\* attention output projection and of the feed-forward project. (The
\* multipliers of the model are those in (0, 1] and 0, at which
\* round_to_nearest's min_value keeps the sizes at 1.)
C28_DynaLinearSizesInRange ==
    \A name \in LinNames :
        /\ 1 <= lin[name].in_features
        /\ lin[name].in_features <= lin[name].in_features_max
        /\ 1 <= lin[name].out_features
        /\ lin[name].out_features <= lin[name].out_features_max
        /\ name \in {"query", "key", "value", "inter"}
              => lin[name].in_features = lin[name].in_features_max
        /\ name \in {"attn_out", "ffn_out"}
              => lin[name].out_features = lin[name].out_features_max

\* a forward at 1/2 after a forward at a width of one head: the elastic sizes
\* are halved, the other sizes are at their maxima
C28_Witness ==
    /\ att_status = "ok"
    /\ fwd_width_mult = Mult(1, 2)
    /\ num_heads = 4 /\ head_size = 2 /\ intermediate_size = 2
    /\ prev_num_attention_heads = 1
    /\ lin["query"] = [in_features |-> 8, out_features |-> 4,
                       in_features_max |-> 8, out_features_max |-> 8]
    /\ lin["attn_out"] = [in_features |-> 4, out_features |-> 8,
                          in_features_max |-> 8, out_features_max |-> 8]
    /\ lin["inter"] = [in_features |-> 8, out_features |-> 1,
                       in_features_max |-> 8, out_features_max |-> 2]
    /\ lin["ffn_out"] = [in_features |-> 1, out_features |-> 8,
                         in_features_max |-> 2, out_features_max |-> 8]


(***************************************************************************)
(* Claims about _truncate_seq_pair (checked under SpecTruncate)            *)
(***************************************************************************)
IsPrefix(s, t) == Len(s) <= Len(t) /\ s = SubSeq(t, 1, Len(s))

OriginalTotal == Len(trunc_orig.tokens_a) + Len(trunc_orig.tokens_b)

\* what holds at every moment of a call with max_length >= 0
TruncateSafe ==
    /\ trunc_pc \in {"loop", "done"}
    /\ IsPrefix(trunc_tokens_a, trunc_orig.tokens_a)
    /\ IsPrefix(trunc_tokens_b, trunc_orig.tokens_b)
    /\ Len(trunc_pops)
       = OriginalTotal - (Len(trunc_tokens_a) + Len(trunc_tokens_b))
    /\ \A k \in 1..Len(trunc_pops) :
          LET p == trunc_pops[k]
          IN  /\ p.len_a + p.len_b = OriginalTotal - (k - 1)
              /\ p.len_a + p.len_b > trunc_max_length
              /\ p.list = "tokens_a" <=> p.len_a > p.len_b
              /\ p.list = "tokens_b" <=> p.len_a <= p.len_b
              /\ k < Len(trunc_pops) =>
                    /\ trunc_pops[k + 1].len_a
                       = p.len_a - (IF p.list = "tokens_a" THEN 1 ELSE 0)
                    /\ trunc_pops[k + 1].len_b
                       = p.len_b - (IF p.list = "tokens_b" THEN 1 ELSE 0)
    /\ trunc_pc = "done" =>
          /\ Len(trunc_tokens_a) + Len(trunc_tokens_b) <= trunc_max_length
          /\ Len(trunc_pops) = Max2(0, OriginalTotal - trunc_max_length)
          /\ OriginalTotal <= trunc_max_length =>
                /\ trunc_tokens_a = trunc_orig.tokens_a
                /\ trunc_tokens_b = trunc_orig.tokens_b
          /\ _truncate_seq_pair(trunc_orig.tokens_a, trunc_orig.tokens_b,
                                trunc_max_length)
             = [status |-> "ok", tokens_a |-> trunc_tokens_a,
                tokens_b |-> trunc_tokens_b]

\* C30: for any two token lists and any max_length >= 0, _truncate_seq_pair
\* terminates, with len(tokens_a) + len(tokens_b) <= max_length and each list
\* a prefix of its original; it removes exactly
\* max(0, original total - max_length) tokens, one at a time from the end of
\* the list that is strictly longer at that moment (tokens_b on a tie), and
\* changes nothing when the pair already fits.
C30_TruncateTerminatesAndFits ==
    /\ [](trunc_max_length >= 0 /\ trunc_pc # "idle" => TruncateSafe)
    /\ <>(trunc_max_length >= 0 => trunc_pc = "done")

\* 4 and 3 tokens into a room of 3: tokens_a, tokens_b (tie), tokens_a,
\* tokens_b (tie) are popped and 2 and 1 tokens are left
C30_Witness ==
    /\ trunc_pc = "done"
    /\ trunc_max_length = 3
    /\ trunc_orig = [tokens_a |-> TokensA(4), tokens_b |-> TokensB(3)]
    /\ trunc_tokens_a = TokensA(2)
    /\ trunc_tokens_b = TokensB(1)
    /\ Len(trunc_pops) = 4
    /\ trunc_pops[2] = [list |-> "tokens_b", len_a |-> 3, len_b |-> 3]

=============================================================================
